---- MODULE Spec2Model ----
(***************************************************************************)
(* Marco: the SMS conversation engine of src/server.js, the table-driven   *)
(* predecessor of its state machine (src/unnamed/part_002) and the         *)
(* template engine's subdomain slug (src/enhance-db.sql).                  *)
(*                                                                         *)
(* Text is a sequence of one-character strings, so that trimming, case     *)
(* folding, pattern tests and marker stripping are computed and not        *)
(* assumed.  Fixed literals of the source that no operation looks into     *)
(* (prompts, URL prefixes) are single elements of such a sequence.         *)
(***************************************************************************)
EXTENDS Integers, Sequences, FiniteSets, TLC

\* ------------------------------------------------------------------ text

UpperLetters == <<"A","B","C","D","E","F","G","H","I","J","K","L","M",
                  "N","O","P","Q","R","S","T","U","V","W","X","Y","Z">>
LowerLetters == <<"a","b","c","d","e","f","g","h","i","j","k","l","m",
                  "n","o","p","q","r","s","t","u","v","w","x","y","z">>
Digits == {"0","1","2","3","4","5","6","7","8","9"}

\* JavaScript's \s, restricted to the ASCII white space the inputs use
IsSpace(c) == c \in {" ", "\n", "\t"}

ToLowerChar(c) ==
  IF \E i \in 1..26 : UpperLetters[i] = c
  THEN LowerLetters[CHOOSE i \in 1..26 : UpperLetters[i] = c]
  ELSE c

\* String.prototype.toLowerCase
ToLowerCase(s) == [i \in 1..Len(s) |-> ToLowerChar(s[i])]

RECURSIVE TrimStart(_)
TrimStart(s) ==
  IF s # <<>> /\ IsSpace(Head(s)) THEN TrimStart(Tail(s)) ELSE s

RECURSIVE TrimEnd(_)
TrimEnd(s) ==
  IF s # <<>> /\ IsSpace(s[Len(s)]) THEN TrimEnd(SubSeq(s, 1, Len(s) - 1)) ELSE s

\* String.prototype.trim
Trim(s) == TrimEnd(TrimStart(s))

\* pat occurs in s starting at position i
MatchAt(s, pat, i) ==
  /\ i >= 1
  /\ i + Len(pat) - 1 <= Len(s)
  /\ \A k \in 1..Len(pat) : s[i + k - 1] = pat[k]

\* first position >= from at which pat occurs in s, 0 when there is none
IndexOf(s, pat, from) ==
  LET hits == {i \in from..Len(s) : MatchAt(s, pat, i)}
  IN IF hits = {} THEN 0 ELSE CHOOSE i \in hits : \A j \in hits : i <= j

\* String.prototype.includes
Includes(s, pat) == pat = <<>> \/ IndexOf(s, pat, 1) # 0

\* number of positions at which pat occurs in s
Occurrences(s, pat) == Cardinality({i \in 1..Len(s) : MatchAt(s, pat, i)})

\* ------------------------------------------------- template engine

SubdomainMaxLen == 50

IsSlugChar(c) ==
  \/ \E i \in 1..26 : LowerLetters[i] = c
  \/ c \in Digits
  \/ IsSpace(c)
  \/ c = "-"

\* .replace(/[^a-z0-9\s-]/g, '')
RemoveSpecial(s) == SelectSeq(s, IsSlugChar)

\* .replace(/\s+/g, '-'): every maximal run of white space becomes one hyphen
RECURSIVE SpacesToHyphen(_)
SpacesToHyphen(s) ==
  IF s = <<>> THEN <<>>
  ELSE IF IsSpace(Head(s))
       THEN <<"-">> \o SpacesToHyphen(TrimStart(s))
       ELSE <<Head(s)>> \o SpacesToHyphen(Tail(s))

\* .replace(/-+/g, '-')
RECURSIVE CollapseHyphens(_)
CollapseHyphens(s) ==
  IF Len(s) < 2 THEN s
  ELSE IF s[1] = "-" /\ s[2] = "-"
       THEN CollapseHyphens(Tail(s))
       ELSE <<Head(s)>> \o CollapseHyphens(Tail(s))

\* .substring(0, n)
Substring0(s, n) == SubSeq(s, 1, IF Len(s) < n THEN Len(s) ELSE n)

\* .replace(/^-|-$/g, ''): one leading and one trailing hyphen
StripEdgeHyphens(s) ==
  LET a == IF s # <<>> /\ Head(s) = "-" THEN Tail(s) ELSE s
  IN IF a # <<>> /\ a[Len(a)] = "-" THEN SubSeq(a, 1, Len(a) - 1) ELSE a

\* generateSubdomain without the collapse of hyphen runs
SubdomainUncollapsed(businessName) ==
  StripEdgeHyphens(
    Substring0(SpacesToHyphen(RemoveSpecial(ToLowerCase(businessName))), SubdomainMaxLen))

\* generateSubdomain with the length cap applied after the trim
SubdomainCapLast(businessName) ==
  Substring0(
    StripEdgeHyphens(
      CollapseHyphens(SpacesToHyphen(RemoveSpecial(ToLowerCase(businessName))))),
    SubdomainMaxLen)

\* TemplateEngine.generateSubdomain
generateSubdomain(businessName) ==
  StripEdgeHyphens(
    Substring0(
      CollapseHyphens(SpacesToHyphen(RemoveSpecial(ToLowerCase(businessName)))),
      SubdomainMaxLen))

\* TemplateEngine.loadTemplates: the templates in registration order
TemplateIds == <<"handyman", "plumbing", "landscaping", "cleaning", "general">>

Keywords(t) ==
  CASE t = "handyman" ->
         <<<<"h","a","n","d","y","m","a","n">>, <<"r","e","p","a","i","r">>, <<"f","i","x">>, <<"m","a","i","n","t","e","n","a","n","c","e">>, <<"o","d","d"," ","j","o","b">>, <<"h","o","m","e"," ","r","e","p","a","i","r">>>>
    [] t = "plumbing" ->
         <<<<"p","l","u","m","b">>, <<"p","i","p","e">>, <<"l","e","a","k">>, <<"d","r","a","i","n">>, <<"w","a","t","e","r">>, <<"t","o","i","l","e","t">>, <<"f","a","u","c","e","t">>>>
    [] t = "landscaping" ->
         <<<<"l","a","n","d","s","c","a","p">>, <<"l","a","w","n">>, <<"g","a","r","d","e","n">>, <<"y","a","r","d">>, <<"g","r","a","s","s">>, <<"t","r","e","e">>, <<"p","l","a","n","t">>>>
    [] t = "cleaning" ->
         <<<<"c","l","e","a","n">>, <<"j","a","n","i","t","o","r">>, <<"h","o","u","s","e","k","e","e","p">>, <<"m","a","i","d">>, <<"o","f","f","i","c","e"," ","c","l","e","a","n">>>>
    [] OTHER -> <<>>

\* services.join(' ')
RECURSIVE JoinSpace(_)
JoinSpace(services) ==
  IF services = <<>> THEN <<>>
  ELSE IF Len(services) = 1 THEN services[1]
  ELSE services[1] \o <<" ">> \o JoinSpace(Tail(services))

Score(t, serviceText) ==
  Cardinality({k \in 1..Len(Keywords(t)) : Includes(serviceText, Keywords(t)[k])})

\* a scoring loop in which a later template wins a tie
RECURSIVE SelectFromLastWins(_, _, _, _)
SelectFromLastWins(i, serviceText, bestTemplate, highestScore) ==
  IF i > Len(TemplateIds) THEN bestTemplate
  ELSE IF Score(TemplateIds[i], serviceText) >= highestScore
       THEN SelectFromLastWins(i + 1, serviceText, TemplateIds[i],
                               Score(TemplateIds[i], serviceText))
       ELSE SelectFromLastWins(i + 1, serviceText, bestTemplate, highestScore)

\* the scoring loop of selectTemplate over templates i..5
RECURSIVE SelectFrom(_, _, _, _)
SelectFrom(i, serviceText, bestTemplate, highestScore) ==
  IF i > Len(TemplateIds) THEN bestTemplate
  ELSE IF Score(TemplateIds[i], serviceText) > highestScore
       THEN SelectFrom(i + 1, serviceText, TemplateIds[i], Score(TemplateIds[i], serviceText))
       ELSE SelectFrom(i + 1, serviceText, bestTemplate, highestScore)

\* TemplateEngine.selectTemplate
selectTemplate(services) ==
  IF services = <<>> THEN "general"
  ELSE SelectFrom(1, ToLowerCase(JoinSpace(services)), "general", 0)

\* String.prototype.charAt(0).toUpperCase() + slice(1).toLowerCase()
ToUpperChar(c) ==
  IF \E i \in 1..26 : LowerLetters[i] = c
  THEN UpperLetters[CHOOSE i \in 1..26 : LowerLetters[i] = c]
  ELSE c

capitalize(str) ==
  IF str = <<>> THEN <<>> ELSE <<ToUpperChar(Head(str))>> \o ToLowerCase(Tail(str))

RECURSIVE ServicesHtml(_)
ServicesHtml(services) ==
  IF services = <<>> THEN <<>>
  ELSE <<"<li>">> \o capitalize(Head(services)) \o <<"</li>">> \o ServicesHtml(Tail(services))

\* TemplateEngine.generateSiteHTML: the document of the selected template, with
\* the business name, the call button and the services list embedded.  The
\* fixed markup between the embedded values is one element per fragment.
generateSiteHTML(config) ==
  LET template == selectTemplate(config.services)
  IN <<"<!DOCTYPE html>", template, "<h1>">> \o config.businessName \o <<"</h1>">>
     \o (IF config.businessPhone # <<>>
         THEN <<"<a href=tel:">> \o config.businessPhone \o <<">Call ">>
              \o config.businessPhone \o <<"</a>">>
         ELSE <<"<div class=cta-button>Get Started</div>">>)
     \o <<"<ul>">> \o ServicesHtml(config.services) \o <<"</ul>">>
     \o <<"Built with Marco", "</html>">>

\* ------------------------------------------------------ bounds, inputs

\* instants of the clock, in hours, and the clock's advance per Tick
MaxTime == 49
TickHours == 49
\* generate-site runs and expiry notices counted per phone up to these
MaxGen == 2
MaxNotices == 2
\* entries of the message log
MaxLog == 4

ExpiryHours == 48

\* SQL NULL of a text column, and of a timestamp column
Null == <<"NULL">>
NoTime == 0 - 1

\* JavaScript truthiness of a nullable string
Falsy(s) == s = Null \/ s = <<>>

\* MARCO_NUMBERS
PrimaryNumber == "+16235557501"
TollFreeNumber == "+18889007501"
NoNumber == ""
NullNumber == "NULL"
FalsyNumber(n) == n = NoNumber \/ n = NullNumber

Phones == {"+15550001", "+15550002"}

\* an inbound message body: the secret, padded and capitalised
SecretPadded == <<" ","C","h","o","w","d","e","r","\n">>

START_MARKER == <<"<","!","-","-"," ","M","A","R","C","O","_","H","T","M","L","_","S","T","A","R","T"," ","-","-",">">>
END_MARKER == <<"<","!","-","-"," ","M","A","R","C","O","_","H","T","M","L","_","E","N","D"," ","-","-",">">>

\* raw texts the assistant returns in active mode
AiTexts ==
  { <<"w","h","a","t"," ","e","l","s","e",".">>,
    <<"d","o","n","e","."," ">> \o START_MARKER \o <<"\n","<","h","t","m","l",">","v","2","<","/","h","t","m","l",">","\n">> \o END_MARKER \o <<"\n">>,
    START_MARKER \o <<"<","h","t","m","l",">","v","3","<","/","h","t","m","l",">">> \o END_MARKER,
    <<"<","!","-","-"," ","M","A","R","C","O","_">> \o START_MARKER \o END_MARKER \o <<"H","T","M","L","_","S","T","A","R","T"," ","-","-",">">>,
    END_MARKER \o <<" ","o","o","p","s"," ">> \o START_MARKER }

\* an external call's outcome: it returned text, or it threw
Returned(t) == [ok |-> TRUE, text |-> t]
Threw == [ok |-> FALSE, text |-> <<>>]

AiOutcomes == {Returned(t) : t \in AiTexts} \cup {Threw}
DeployOutcomes == {"ok", "fail"}

\* the conversation states server.js knows, and states older servers wrote
KnownStates ==
  {"waitlist", "greeting", "ask_name", "ask_type", "awaiting_payment",
   "ask_password", "expired", "active"}
LegacyStates == {"ask_biz_name", "building"}

\* --------------------------------------------------------------- state

VARIABLES
  convos,     \* table conversations: phone -> row
  customers,  \* table customers: phone -> row
  messages,   \* table messages, in insertion order
  files,      \* the sites directory: subdomain -> document
  now,        \* the clock, in hours
  creds,      \* the Cloudflare credentials are configured
  genCount,   \* per phone, how often generateSite has run
  notices,    \* per phone, how many expiry notices were dispatched
  last,       \* what the last operation did
  trial       \* a run of generateSubdomain over its own result

vars == <<convos, customers, messages, files, now, creds, genCount, notices, last, trial>>

\* a row of conversations as INSERT INTO conversations (phone, state) leaves it
NewRow(p, st) ==
  [ phone |-> p, state |-> st,
    site_name |-> Null, site_type |-> Null, contact_phone |-> Null,
    site_url |-> Null, site_subdomain |-> Null, site_html |-> Null,
    sendblue_number |-> NullNumber,
    paid_at |-> NoTime, expires_at |-> NoTime, site_deleted |-> FALSE ]

NewCustomer(st) == [status |-> st, site_url |-> Null, paid_at |-> NoTime]

\* SET of the named columns on a row
Merge(row, upd) ==
  [f \in DOMAIN row |-> IF f \in DOMAIN upd THEN upd[f] ELSE row[f]]

\* UPDATE <table> SET ... WHERE phone = p
Update(table, p, upd) ==
  IF p \in DOMAIN table THEN [table EXCEPT ![p] = Merge(@, upd)] ELSE table

\* INSERT ... ON CONFLICT (phone) DO NOTHING
InsertIfAbsent(table, p, row) ==
  IF p \in DOMAIN table THEN table
  ELSE [q \in DOMAIN table \cup {p} |-> IF q = p THEN row ELSE table[q]]

\* fs.writeFileSync(path.join(sitesDir, `${subdomain}.html`), html)
WriteFile(fl, subdomain, html) ==
  [k \in DOMAIN fl \cup {subdomain} |-> IF k = subdomain THEN html ELSE fl[k]]

\* ------------------------------------------------------------ transport

\* sendSMS: the SendBlue backend; from_number only when truthy
sendSMS(to, content, fromNumber, ok) ==
  [ to |-> to, content |-> content, via |-> "sendblue",
    from |-> IF FalsyNumber(fromNumber) THEN NoNumber ELSE fromNumber, ok |-> ok ]

\* sendSMSTwilio: the Twilio backend; From defaults to the toll-free number
sendSMSTwilio(to, content, fromNumber, ok) ==
  [ to |-> to, content |-> content, via |-> "twilio",
    from |-> IF FalsyNumber(fromNumber) THEN TollFreeNumber ELSE fromNumber, ok |-> ok ]

\* sendReply: picks the backend by the conversation's Marco number
sendReply(to, content, marcoNumber, ok) ==
  IF marcoNumber = TollFreeNumber
  THEN sendSMSTwilio(to, content, marcoNumber, ok)
  ELSE sendSMS(to, content, marcoNumber, ok)

\* ------------------------------------------------------------- replies

WaitlistReply ==
  <<"you're on the list. marco will be right with you - your dream site is just a few texts away.">>
EntryPrompt == <<"marco here. I build websites over text. what's your business called?">>
PasswordPrompt == <<"josh huh? prove it. what's the secret password?">>
ActivatedReply == <<"that's the one. 30 days free. your site is live. what do you want to change?">>
RebuffReply == <<"nice try. go ask josh for the secret password.">>
DoneReply == <<"done. refresh the page.">>
ApologyReply == <<"Marco here. Give me a sec, something's weird on my end.">>
ExpiredNotice == <<"your draft site expired. text me anytime if you want to start fresh.">>
PaidNotice == <<"payment received. your site is live and yours to keep. what do you want to change?">>
BypassNotice == <<"you're in. site is live. what do you want to change?">>

\* process.env.STRIPE_PAYMENT_LINK || 'https://buy.stripe.com/test'
PaymentLink == <<"https://buy.stripe.com/test">>

NameReply(name) == name \o <<". nice. what type of business is it?">>
SiteReply(siteUrl) ==
  <<"here's your site: ">> \o siteUrl \o <<"\n\n$9.99 to keep it live: ">> \o PaymentLink
NagReply == <<"still waiting on that payment. $9.99: ">> \o PaymentLink

\* ---------------------------------------------------------- deployment

ManagedUrl(subdomain) == <<"https://">> \o subdomain \o <<".textmarco.com">>
LocalUrl(subdomain) == <<"https://marco-clean.onrender.com/sites/">> \o subdomain

\* CloudflareDeployer.deployWebsite: simulated without credentials; otherwise
\* the Pages API call succeeds or its error is caught and reported
deployWebsite(subdomain, dep) ==
  IF ~creds
  THEN [ success |-> TRUE, url |-> ManagedUrl(subdomain), method |-> "simulation",
         localPath |-> <<"deployed-sites/">> \o subdomain \o <<".html">> ]
  ELSE IF dep = "ok"
  THEN [ success |-> TRUE, url |-> ManagedUrl(subdomain), method |-> "cloudflare",
         localPath |-> Null ]
  ELSE [success |-> FALSE, url |-> Null, method |-> "cloudflare", localPath |-> Null]

\* generateSite that skips the UPDATE storing the subdomain and the document
generateSiteUnsaved(cv, fl, data, dep) ==
  LET subdomain == generateSubdomain(IF Falsy(data.site_name) THEN <<"s","i","t","e">> ELSE data.site_name)
      html == generateSiteHTML(
                [ businessName |-> IF Falsy(data.site_name) THEN <<"M","y"," ","B","u","s","i","n","e","s","s">> ELSE data.site_name,
                  businessPhone |-> IF Falsy(data.contact_phone) THEN <<>> ELSE data.contact_phone,
                  services |-> IF Falsy(data.site_type) THEN <<>> ELSE <<data.site_type>> ])
  IN [ convos |-> cv, files |-> WriteFile(fl, subdomain, html),
       url |-> LocalUrl(subdomain), deploys |-> <<>> ]

\* a deployer that lets the error of the Pages API escape: the site URL of a
\* failed deployment is the null it reports
generateSiteFailsWithDeploy(cv, fl, data, dep) ==
  LET subdomain == generateSubdomain(IF Falsy(data.site_name) THEN <<"s","i","t","e">> ELSE data.site_name)
      config ==
        [ businessName |-> IF Falsy(data.site_name) THEN <<"M","y"," ","B","u","s","i","n","e","s","s">> ELSE data.site_name,
          businessPhone |-> IF Falsy(data.contact_phone) THEN <<>> ELSE data.contact_phone,
          services |-> IF Falsy(data.site_type) THEN <<>> ELSE <<data.site_type>> ]
      html == generateSiteHTML(config)
      fl1 == WriteFile(fl, subdomain, html)
      cv1 == Update(cv, data.phone, [site_subdomain |-> subdomain, site_html |-> html])
      result == deployWebsite(subdomain, dep)
  IN IF creds
     THEN [ convos |-> cv1, files |-> fl1,
            url |-> IF result.method # "simulation" THEN result.url ELSE LocalUrl(subdomain),
            deploys |-> <<[subdomain |-> subdomain, html |-> html, ok |-> result.success]>> ]
     ELSE [ convos |-> cv1, files |-> fl1, url |-> LocalUrl(subdomain), deploys |-> <<>> ]

\* generateSite that asks the deployer whatever the credentials and takes
\* the URL of any deployment reported successful
generateSiteTrustsDeployer(cv, fl, data, dep) ==
  LET subdomain == generateSubdomain(IF Falsy(data.site_name) THEN <<"s","i","t","e">> ELSE data.site_name)
      config ==
        [ businessName |-> IF Falsy(data.site_name) THEN <<"M","y"," ","B","u","s","i","n","e","s","s">> ELSE data.site_name,
          businessPhone |-> IF Falsy(data.contact_phone) THEN <<>> ELSE data.contact_phone,
          services |-> IF Falsy(data.site_type) THEN <<>> ELSE <<data.site_type>> ]
      html == generateSiteHTML(config)
      fl1 == WriteFile(fl, subdomain, html)
      cv1 == Update(cv, data.phone, [site_subdomain |-> subdomain, site_html |-> html])
      result == deployWebsite(subdomain, dep)
  IN [ convos |-> cv1, files |-> fl1,
       url |-> IF result.success THEN result.url ELSE LocalUrl(subdomain),
       deploys |-> IF creds
                   THEN <<[subdomain |-> subdomain, html |-> html, ok |-> result.success]>>
                   ELSE <<>> ]

\* generateSite
generateSite(cv, fl, data, dep) ==
  LET subdomain == generateSubdomain(IF Falsy(data.site_name) THEN <<"s","i","t","e">> ELSE data.site_name)
      config ==
        [ businessName |-> IF Falsy(data.site_name) THEN <<"M","y"," ","B","u","s","i","n","e","s","s">> ELSE data.site_name,
          businessPhone |-> IF Falsy(data.contact_phone) THEN <<>> ELSE data.contact_phone,
          services |-> IF Falsy(data.site_type) THEN <<>> ELSE <<data.site_type>> ]
      html == generateSiteHTML(config)
      fl1 == WriteFile(fl, subdomain, html)
      cv1 == Update(cv, data.phone, [site_subdomain |-> subdomain, site_html |-> html])
      result == deployWebsite(subdomain, dep)
  IN IF creds
     THEN [ convos |-> cv1, files |-> fl1,
            url |-> IF result.success /\ result.method # "simulation"
                    THEN result.url ELSE LocalUrl(subdomain),
            deploys |-> <<[subdomain |-> subdomain, html |-> html, ok |-> result.success]>> ]
     ELSE [ convos |-> cv1, files |-> fl1, url |-> LocalUrl(subdomain), deploys |-> <<>> ]

\* ---------------------------------------------------- site editing

\* row.site_url.match(/https?:\/\/([^.]+)\.textmarco\.com/)?.[1] ||
\* row.site_url.match(/\/sites\/([^/?#]+)/)?.[1] || null
SubdomainOfUrl(url) ==
  IF Len(url) >= 3 /\ url[1] = "https://" /\ url[Len(url)] = ".textmarco.com"
  THEN SubSeq(url, 2, Len(url) - 1)
  ELSE IF Len(url) >= 2 /\ url[1] = "https://marco-clean.onrender.com/sites/"
  THEN Tail(url)
  ELSE Null

Unavailable == [found |-> FALSE, html |-> Null, subdomain |-> Null, siteUrl |-> Null]
SiteData(html, subdomain, siteUrl) ==
  [found |-> TRUE, html |-> html, subdomain |-> subdomain, siteUrl |-> siteUrl]

\* a lookup that tries the subdomain of the site URL before the stored one
getSiteHTMLUrlFirst(cv, fl, phone) ==
  IF phone \notin DOMAIN cv THEN [site |-> Unavailable, convos |-> cv]
  ELSE
    LET row == cv[phone]
        derived == IF Falsy(row.site_url) THEN Null ELSE SubdomainOfUrl(row.site_url)
    IN IF ~Falsy(row.site_html)
       THEN [ site |-> SiteData(row.site_html, row.site_subdomain, row.site_url),
              convos |-> cv ]
       ELSE IF ~Falsy(derived) /\ derived \in DOMAIN fl
       THEN [ site |-> SiteData(fl[derived], derived, row.site_url),
              convos |-> Update(cv, phone,
                                [site_html |-> fl[derived], site_subdomain |-> derived]) ]
       ELSE IF ~Falsy(row.site_subdomain) /\ row.site_subdomain \in DOMAIN fl
       THEN [ site |-> SiteData(fl[row.site_subdomain], row.site_subdomain, row.site_url),
              convos |-> Update(cv, phone, [site_html |-> fl[row.site_subdomain]]) ]
       ELSE [site |-> Unavailable, convos |-> cv]

\* getSiteHTML: the resolved site and the conversations table after the backfill
getSiteHTML(cv, fl, phone) ==
  IF phone \notin DOMAIN cv THEN [site |-> Unavailable, convos |-> cv]
  ELSE
    LET row == cv[phone]
        derived == IF Falsy(row.site_url) THEN Null ELSE SubdomainOfUrl(row.site_url)
    IN IF ~Falsy(row.site_html)
       THEN [ site |-> SiteData(row.site_html, row.site_subdomain, row.site_url),
              convos |-> cv ]
       ELSE IF ~Falsy(row.site_subdomain) /\ row.site_subdomain \in DOMAIN fl
       THEN [ site |-> SiteData(fl[row.site_subdomain], row.site_subdomain, row.site_url),
              convos |-> Update(cv, phone, [site_html |-> fl[row.site_subdomain]]) ]
       ELSE IF ~Falsy(derived) /\ derived \in DOMAIN fl
       THEN [ site |-> SiteData(fl[derived], derived, row.site_url),
              convos |-> Update(cv, phone,
                                [site_html |-> fl[derived], site_subdomain |-> derived]) ]
       ELSE [site |-> Unavailable, convos |-> cv]

\* currentSiteUrl && currentSiteUrl.includes('textmarco.com')
IsCloudflare(url) ==
  ~Falsy(url) /\ \E i \in 1..Len(url) : url[i] = ".textmarco.com"

\* a save that redeploys whatever the site's URL is
saveSiteAndRedeployAlways(cv, fl, phone, subdomain, newHtml, currentSiteUrl, dep) ==
  [ convos |-> Update(cv, phone, [site_html |-> newHtml]),
    files |-> WriteFile(fl, subdomain, newHtml),
    deploys |-> IF creds
                THEN <<[ subdomain |-> subdomain, html |-> newHtml,
                         ok |-> deployWebsite(subdomain, dep).success ]>>
                ELSE <<>> ]

\* saveSiteAndRedeploy: the redeploy's failure is logged and swallowed
saveSiteAndRedeploy(cv, fl, phone, subdomain, newHtml, currentSiteUrl, dep) ==
  [ convos |-> Update(cv, phone, [site_html |-> newHtml]),
    files |-> WriteFile(fl, subdomain, newHtml),
    deploys |-> IF creds /\ IsCloudflare(currentSiteUrl)
                THEN <<[ subdomain |-> subdomain, html |-> newHtml,
                         ok |-> deployWebsite(subdomain, dep).success ]>>
                ELSE <<>> ]

\* fullResponse.match(/<!-- MARCO_HTML_START -->([\s\S]*?)<!-- MARCO_HTML_END -->/):
\* the first start marker that an end marker follows, up to the first such end marker
HtmlMatch(fullResponse) ==
  LET i == IndexOf(fullResponse, START_MARKER, 1)
      j == IF i = 0 THEN 0 ELSE IndexOf(fullResponse, END_MARKER, i + Len(START_MARKER))
  IN IF i = 0 \/ j = 0 THEN [found |-> FALSE, from |-> 0, to |-> 0, group |-> <<>>]
     ELSE [ found |-> TRUE, from |-> i, to |-> j + Len(END_MARKER) - 1,
            group |-> SubSeq(fullResponse, i + Len(START_MARKER), j - 1) ]

\* fullResponse.replace(/<!-- MARCO_HTML_START -->[\s\S]*?<!-- MARCO_HTML_END -->/, '').trim()
StripMarkers(fullResponse) ==
  LET m == HtmlMatch(fullResponse)
  IN IF ~m.found THEN Trim(fullResponse)
     ELSE Trim(SubSeq(fullResponse, 1, m.from - 1)
               \o SubSeq(fullResponse, m.to + 1, Len(fullResponse)))

\* ------------------------------------------- the assistant's context

\* SELECT direction, body FROM messages WHERE phone = $1
\* ORDER BY created_at DESC LIMIT 10, reversed: the phone's last rows, oldest first
ContextLimit == 10
LastRows(log, phone) ==
  LET mine == SelectSeq(log, LAMBDA m : m.phone = phone)
  IN SubSeq(mine, IF Len(mine) > ContextLimit THEN Len(mine) - ContextLimit + 1 ELSE 1,
            Len(mine))

RoleOf(m) == IF m.direction = "inbound" THEN "user" ELSE "assistant"

\* the loop over history from row i on: a row of the role of the last turn is
\* joined to it with a newline, any other row starts a turn
RECURSIVE CollapseFrom(_, _, _)
CollapseFrom(i, history, turns) ==
  IF i > Len(history) THEN turns
  ELSE IF turns # <<>> /\ turns[Len(turns)].role = RoleOf(history[i])
  THEN CollapseFrom(i + 1, history,
                    [turns EXCEPT ![Len(turns)].content = @ \o <<"\n">> \o history[i].body])
  ELSE CollapseFrom(i + 1, history,
                    Append(turns, [role |-> RoleOf(history[i]), content |-> history[i].body]))

\* a context that always adds the current message as a turn of its own
BuildContextAlwaysPushes(log, phone, message) ==
  Append(CollapseFrom(1, LastRows(log, phone), <<>>), [role |-> "user", content |-> message])

\* processState, state 'active', steps 2 and 3: the messages handed to the assistant
BuildContext(log, phone, message) ==
  LET turns == CollapseFrom(1, LastRows(log, phone), <<>>)
  IN IF turns = <<>> \/ turns[Len(turns)].role # "user"
     THEN Append(turns, [role |-> "user", content |-> message])
     ELSE IF ~Includes(turns[Len(turns)].content, message)
     THEN [turns EXCEPT ![Len(turns)].content = @ \o <<"\n">> \o message]
     ELSE turns

\* ------------------------------------------------------ state machine

Secret == <<"c","h","o","w","d","e","r">>

\* /josh|free|hook.?up|password|deal|told me|said i|gave me|free month|free trial/i
ClaimsReferral(message) ==
  LET m == ToLowerCase(message)
  IN \/ \E w \in { <<"j","o","s","h">>, <<"f","r","e","e">>, <<"h","o","o","k","u","p">>, <<"p","a","s","s","w","o","r","d">>, <<"d","e","a","l">>, <<"t","o","l","d"," ","m","e">>,
                   <<"s","a","i","d"," ","i">>, <<"g","a","v","e"," ","m","e">>, <<"f","r","e","e"," ","m","o","n","t","h">>, <<"f","r","e","e"," ","t","r","i","a","l">> } : Includes(m, w)
     \/ \E i \in 1..Len(m) :
          /\ MatchAt(m, <<"h","o","o","k">>, i)
          /\ i + 4 <= Len(m)
          /\ m[i + 4] # "\n"
          /\ MatchAt(m, <<"u","p">>, i + 5)

\* an activation that updates the conversation and not the customer
ActivateConversationOnly(cv, cu, phone) ==
  [ convos |-> Update(cv, phone, [state |-> "active", paid_at |-> now, expires_at |-> NoTime]),
    customers |-> cu ]

\* an activation that leaves the draft's deadline in place
ActivateKeepsExpiry(cv, cu, phone) ==
  [ convos |-> Update(cv, phone, [state |-> "active", paid_at |-> now]),
    customers |-> Update(cu, phone, [status |-> "launched", paid_at |-> now]) ]

\* the three statements every activation runs
Activate(cv, cu, phone) ==
  [ convos |-> Update(cv, phone, [state |-> "active", paid_at |-> now, expires_at |-> NoTime]),
    customers |-> Update(cu, phone, [status |-> "launched", paid_at |-> now]) ]

\* what processState hands back, with the tables as it left them
Result(cv, cu, fl, response, newState, extracted) ==
  [ threw |-> FALSE, convos |-> cv, customers |-> cu, files |-> fl,
    response |-> response, newState |-> newState, extracted |-> extracted,
    generated |-> 0, extractCalls |-> 0, deploys |-> <<>> ]

\* processState left by an exception, with the tables as they were at the throw
Thrown(cv, cu, fl, calls) ==
  [ threw |-> TRUE, convos |-> cv, customers |-> cu, files |-> fl,
    response |-> Null, newState |-> "none", extracted |-> <<>>,
    generated |-> 0, extractCalls |-> calls, deploys |-> <<>> ]

NoFields == <<>>

\* an active branch that sends a conversation without a resolvable site back
\* to onboarding
ProcessActiveRestartsWithoutSite(cv, cu, fl, convo, message, ai, dep) ==
  LET got == getSiteHTML(cv, fl, convo.phone)
      siteData == got.site
      fullResponse == ai.text
      htmlMatch == HtmlMatch(fullResponse)
      newHtml == Trim(htmlMatch.group)
      saved == saveSiteAndRedeploy(got.convos, fl, convo.phone, siteData.subdomain,
                                   newHtml, siteData.siteUrl, dep)
      conversationalReply == StripMarkers(fullResponse)
  IN IF ~ai.ok THEN Thrown(got.convos, cu, fl, 0)
     ELSE IF htmlMatch.found /\ siteData.found
     THEN [ Result(saved.convos, cu, saved.files,
                   IF conversationalReply = <<>> THEN DoneReply ELSE conversationalReply,
                   "active", NoFields)
            EXCEPT !.deploys = saved.deploys ]
     ELSE Result(got.convos, cu, fl, fullResponse,
                 IF siteData.found THEN "active" ELSE "ask_name", NoFields)

\* processState, state 'active': the site-edit protocol
ProcessActive(cv, cu, fl, convo, message, ai, dep) ==
  LET got == getSiteHTML(cv, fl, convo.phone)
      siteData == got.site
      fullResponse == ai.text
      htmlMatch == HtmlMatch(fullResponse)
      newHtml == Trim(htmlMatch.group)
      saved == saveSiteAndRedeploy(got.convos, fl, convo.phone, siteData.subdomain,
                                   newHtml, siteData.siteUrl, dep)
      conversationalReply == StripMarkers(fullResponse)
  IN IF ~ai.ok THEN Thrown(got.convos, cu, fl, 0)
     ELSE IF htmlMatch.found /\ siteData.found
     THEN [ Result(saved.convos, cu, saved.files,
                   IF conversationalReply = <<>> THEN DoneReply ELSE conversationalReply,
                   "active", NoFields)
            EXCEPT !.deploys = saved.deploys ]
     ELSE Result(got.convos, cu, fl, fullResponse, "active", NoFields)

\* an ask_type branch that generates the site from the row as it was loaded,
\* before the extracted type was stored
ProcessAskTypeFromLoaded(cv, cu, fl, convo, ext, dep) ==
  LET type == Trim(ext.text)
      cv1 == Update(cv, convo.phone, [state |-> "ask_type", site_type |-> type])
      site == generateSite(cv1, fl, convo, dep)
      siteUrl == site.url
      cv2 == Update(site.convos, convo.phone,
                    [expires_at |-> now + ExpiryHours, site_url |-> siteUrl])
      cu2 == Update(cu, convo.phone, [status |-> "building", site_url |-> siteUrl])
  IN IF ~ext.ok THEN Thrown(cv, cu, fl, 1)
     ELSE [ Result(cv2, cu2, site.files, SiteReply(siteUrl), "awaiting_payment",
                   [site_url |-> siteUrl])
            EXCEPT !.generated = 1, !.extractCalls = 1, !.deploys = site.deploys ]

\* processState, state 'ask_type': extract the type, store it, generate the site
ProcessAskType(cv, cu, fl, convo, ext, dep) ==
  LET type == Trim(ext.text)
      cv1 == Update(cv, convo.phone, [state |-> "ask_type", site_type |-> type])
      site == generateSite(cv1, fl, cv1[convo.phone], dep)
      siteUrl == site.url
      cv2 == Update(site.convos, convo.phone,
                    [expires_at |-> now + ExpiryHours, site_url |-> siteUrl])
      cu2 == Update(cu, convo.phone, [status |-> "building", site_url |-> siteUrl])
  IN IF ~ext.ok THEN Thrown(cv, cu, fl, 1)
     ELSE [ Result(cv2, cu2, site.files, SiteReply(siteUrl), "awaiting_payment",
                   [site_url |-> siteUrl])
            EXCEPT !.generated = 1, !.extractCalls = 1, !.deploys = site.deploys ]

\* the awaiting_payment branch that rebuilds the site with every payment nag
ProcessAwaitingPaymentRegenerates(cv, cu, fl, convo, message) ==
  IF ToLowerCase(Trim(message)) = Secret
  THEN Result(Activate(cv, cu, convo.phone).convos, Activate(cv, cu, convo.phone).customers,
              fl, ActivatedReply, "active", NoFields)
  ELSE IF ClaimsReferral(message)
  THEN Result(cv, cu, fl, PasswordPrompt, "ask_password", NoFields)
  ELSE [Result(cv, cu, fl, NagReply, "awaiting_payment", NoFields) EXCEPT !.generated = 1]

\* the awaiting_payment branch that accepts any message containing the secret
ProcessAwaitingPaymentContains(cv, cu, fl, convo, message) ==
  IF Includes(ToLowerCase(message), Secret)
  THEN Result(Activate(cv, cu, convo.phone).convos, Activate(cv, cu, convo.phone).customers,
              fl, ActivatedReply, "active", NoFields)
  ELSE IF ClaimsReferral(message)
  THEN Result(cv, cu, fl, PasswordPrompt, "ask_password", NoFields)
  ELSE Result(cv, cu, fl, NagReply, "awaiting_payment", NoFields)

\* processState, state 'awaiting_payment'
ProcessAwaitingPayment(cv, cu, fl, convo, message) ==
  IF ToLowerCase(Trim(message)) = Secret
  THEN Result(Activate(cv, cu, convo.phone).convos, Activate(cv, cu, convo.phone).customers,
              fl, ActivatedReply, "active", NoFields)
  ELSE IF ClaimsReferral(message)
  THEN Result(cv, cu, fl, PasswordPrompt, "ask_password", NoFields)
  ELSE Result(cv, cu, fl, NagReply, "awaiting_payment", NoFields)

\* the ask_password branch that sends a wrong answer back to the payment nag
ProcessAskPasswordToPayment(cv, cu, fl, convo, message) ==
  IF ToLowerCase(Trim(message)) = Secret
  THEN Result(Activate(cv, cu, convo.phone).convos, Activate(cv, cu, convo.phone).customers,
              fl, ActivatedReply, "active", NoFields)
  ELSE Result(cv, cu, fl, RebuffReply, "awaiting_payment", NoFields)

\* the ask_password branch that compares the message as typed
ProcessAskPasswordAsTyped(cv, cu, fl, convo, message) ==
  IF message = Secret
  THEN Result(Activate(cv, cu, convo.phone).convos, Activate(cv, cu, convo.phone).customers,
              fl, ActivatedReply, "active", NoFields)
  ELSE Result(cv, cu, fl, RebuffReply, "ask_password", NoFields)

\* processState, state 'ask_password'
ProcessAskPassword(cv, cu, fl, convo, message) ==
  IF ToLowerCase(Trim(message)) = Secret
  THEN Result(Activate(cv, cu, convo.phone).convos, Activate(cv, cu, convo.phone).customers,
              fl, ActivatedReply, "active", NoFields)
  ELSE Result(cv, cu, fl, RebuffReply, "ask_password", NoFields)

\* the fallback return of the older servers: back to their entry state
ProcessUnknownToAskType(cv, cu, fl) == Result(cv, cu, fl, EntryPrompt, "ask_type", NoFields)

\* processState, any state the chain of ifs does not name: the fallback return
ProcessUnknown(cv, cu, fl) == Result(cv, cu, fl, EntryPrompt, "ask_name", NoFields)

\* processState(convo, message) on the tables cv, cu and the sites directory fl;
\* ext, ai and dep are what the Extraction Service, the assistant and the
\* Deployment Backend answer when the step calls them
processState(cv, cu, fl, convo, message, ext, ai, dep) ==
  CASE convo.state = "active" -> ProcessActive(cv, cu, fl, convo, message, ai, dep)
    [] convo.state = "waitlist" -> Result(cv, cu, fl, WaitlistReply, "waitlist", NoFields)
    [] convo.state = "greeting" -> Result(cv, cu, fl, EntryPrompt, "ask_name", NoFields)
    [] convo.state = "ask_name" ->
         IF ~ext.ok THEN Thrown(cv, cu, fl, 1)
         ELSE [ Result(cv, cu, fl, NameReply(Trim(ext.text)), "ask_type",
                       [site_name |-> Trim(ext.text)])
                EXCEPT !.extractCalls = 1 ]
    [] convo.state = "ask_type" -> ProcessAskType(cv, cu, fl, convo, ext, dep)
    [] convo.state = "awaiting_payment" -> ProcessAwaitingPayment(cv, cu, fl, convo, message)
    [] convo.state = "ask_password" -> ProcessAskPassword(cv, cu, fl, convo, message)
    [] convo.state = "expired" -> Result(cv, cu, fl, EntryPrompt, "ask_name", NoFields)
    [] OTHER -> ProcessUnknown(cv, cu, fl)

\* an update that clears the onboarding fields the step did not extract
updateConversationClearsOthers(cv, phone, newState, extracted) ==
  Update(cv, phone,
         [state |-> newState, site_name |-> Null, site_type |-> Null] @@ extracted)

\* updateConversation(phone, newState, extracted)
updateConversation(cv, phone, newState, extracted) ==
  Update(cv, phone, [state |-> newState] @@ extracted)

\* ------------------------------------------------------------ handlers

Inbound(p, body) == [phone |-> p, direction |-> "inbound", body |-> body]
Outbound(p, body) == [phone |-> p, direction |-> "outbound", body |-> body]

\* The surroundings of a run, E: the answers the external services may give
\* (extracts, ai, deploys), the outcomes a send may have (oks), whether the
\* message log is kept (log: no step but the assistant's context reads it) and
\* whether the texts and sends of an operation are recorded in last (watch).

\* what an operation is observed to have done
Observed(kind, p, msg, loaded, r, sends, E) ==
  [ kind |-> kind, phone |-> p, loaded |-> loaded,
    threw |-> r.threw, persisted |-> r.newState,
    generated |-> r.generated, extractCalls |-> r.extractCalls,
    msg |-> IF E.watch THEN msg ELSE <<>>,
    reply |-> IF E.watch THEN r.response ELSE <<>>,
    deploys |-> IF E.watch THEN r.deploys ELSE <<>>,
    sends |-> IF E.watch THEN sends ELSE <<>>,
    cleaned |-> {} ]

\* an operation that runs no state-machine step
NoStep == [ threw |-> FALSE, newState |-> "none", response |-> Null,
            generated |-> 0, extractCalls |-> 0, deploys |-> <<>> ]

\* a getOrCreateConversation that starts a new conversation in greeting
getOrCreateConversationInGreeting(cv, cu, phone) ==
  [ customers |-> InsertIfAbsent(cu, phone, NewCustomer("new")),
    convos |-> InsertIfAbsent(cv, phone, NewRow(phone, "greeting")) ]

\* getOrCreateConversation
getOrCreateConversation(cv, cu, phone) ==
  [ customers |-> InsertIfAbsent(cu, phone, NewCustomer("new")),
    convos |-> InsertIfAbsent(cv, phone, NewRow(phone, "waitlist")) ]

\* the answers the external services give when a step in state st calls them:
\* a service the step does not call answers nothing
NotCalled == [ok |-> TRUE, text |-> <<>>]
ExtractAnswers(st, E) == IF st \in {"ask_name", "ask_type"} THEN E.extracts ELSE {NotCalled}
AiAnswers(st, E) == IF st = "active" THEN E.ai ELSE {NotCalled}
DeployAnswers(st, E) == IF creds /\ st \in {"ask_type", "active"} THEN E.deploys ELSE {"ok"}

\* the state processState will see for phone: the stored one, or that of the
\* row getOrCreateConversation inserts
LoadedState(phone) == IF phone \in DOMAIN convos THEN convos[phone].state ELSE "waitlist"

\* a try block that binds the conversation to the number of every inbound
\* message that carries one
StepRebinds(from, body, marcoNumber, ext, ai, dep) ==
  LET got == getOrCreateConversation(convos, customers, from)
      convo == got.convos[from]
      cv1 == IF ~FalsyNumber(marcoNumber)
             THEN Update(got.convos, from, [sendblue_number |-> marcoNumber])
             ELSE got.convos
      r == processState(cv1, got.customers, files, convo, body, ext, ai, dep)
  IN [ convo |-> convo,
       result |-> IF r.threw THEN r
                  ELSE [r EXCEPT !.convos =
                          updateConversation(r.convos, from, r.newState, r.extracted)] ]

\* the try block of an inbound webhook up to the reply, shared by both routes
Step(from, body, marcoNumber, ext, ai, dep) ==
  LET got == getOrCreateConversation(convos, customers, from)
      convo == got.convos[from]
      cv1 == IF ~FalsyNumber(marcoNumber) /\ FalsyNumber(convo.sendblue_number)
             THEN Update(got.convos, from, [sendblue_number |-> marcoNumber])
             ELSE got.convos
      r == processState(cv1, got.customers, files, convo, body, ext, ai, dep)
  IN [ convo |-> convo,
       result |-> IF r.threw THEN r
                  ELSE [r EXCEPT !.convos =
                          updateConversation(r.convos, from, r.newState, r.extracted)] ]

\* a commit that keeps only the latest exchange in the log
CommitKeepsLatest(from, body, s, E) ==
  /\ ~E.log \/ Len(messages) + 2 <= MaxLog
  /\ genCount[from] + s.result.generated <= MaxGen
  /\ convos' = s.result.convos
  /\ customers' = s.result.customers
  /\ files' = s.result.files
  /\ messages' = IF ~E.log THEN messages
                 ELSE IF s.result.threw THEN <<Inbound(from, body)>>
                 ELSE <<Inbound(from, body), Outbound(from, s.result.response)>>
  /\ genCount' = [genCount EXCEPT ![from] = @ + s.result.generated]
  /\ UNCHANGED <<now, creds, trial, notices>>

\* a commit that logs the reply before the inbound message
CommitLogsReplyFirst(from, body, s, E) ==
  /\ ~E.log \/ Len(messages) + 2 <= MaxLog
  /\ genCount[from] + s.result.generated <= MaxGen
  /\ convos' = s.result.convos
  /\ customers' = s.result.customers
  /\ files' = s.result.files
  /\ messages' = IF ~E.log THEN messages
                 ELSE IF s.result.threw THEN Append(messages, Inbound(from, body))
                 ELSE Append(Append(messages, Outbound(from, s.result.response)),
                             Inbound(from, body))
  /\ genCount' = [genCount EXCEPT ![from] = @ + s.result.generated]
  /\ UNCHANGED <<now, creds, trial, notices>>

\* the tables, the log and the counters after the try block s of a webhook
Commit(from, body, s, E) ==
  /\ ~E.log \/ Len(messages) + 2 <= MaxLog
  /\ genCount[from] + s.result.generated <= MaxGen
  /\ convos' = s.result.convos
  /\ customers' = s.result.customers
  /\ files' = s.result.files
  /\ messages' = IF ~E.log THEN messages
                 ELSE IF s.result.threw THEN Append(messages, Inbound(from, body))
                 ELSE Append(Append(messages, Inbound(from, body)),
                             Outbound(from, s.result.response))
  /\ genCount' = [genCount EXCEPT ![from] = @ + s.result.generated]
  /\ UNCHANGED <<now, creds, trial, notices>>

\* the sends of a webhook that tries the apology a second time when it fails
SendsRetrying(threw, reply, apology) ==
  IF threw THEN <<apology>>
  ELSE IF reply.ok THEN <<reply>>
  ELSE IF apology.ok THEN <<reply, apology>> ELSE <<reply, apology, apology>>

\* the sends of a webhook: the reply, and the apology when the step or the
\* reply's send threw
Sends(threw, reply, apology) ==
  IF threw THEN <<apology>> ELSE IF reply.ok THEN <<reply>> ELSE <<reply, apology>>

\* a SendBlue webhook that logs the message before it looks at the outbound flag
SmsLogsEchoes(from, body, sendblueNumber, isOutbound, E) ==
  IF isOutbound
  THEN /\ last' = Observed("echo", from, body, "none", NoStep, <<>>, E)
       /\ messages' = IF E.log /\ Len(messages) < MaxLog
                      THEN Append(messages, Inbound(from, body)) ELSE messages
       /\ UNCHANGED <<convos, customers, files, now, creds, trial, genCount, notices>>
  ELSE \E ext \in ExtractAnswers(LoadedState(from), E),
          ai \in AiAnswers(LoadedState(from), E),
          dep \in DeployAnswers(LoadedState(from), E) :
       \E s \in {Step(from, body, sendblueNumber, ext, ai, dep)} :
       \E sendOk \in (IF s.result.threw THEN {TRUE} ELSE E.oks), fallbackOk \in E.oks :
         /\ s.result.threw \/ ~sendOk \/ fallbackOk
         /\ Commit(from, body, s, E)
         /\ last' = Observed("sms", from, body, s.convo.state, s.result,
                       Sends(s.result.threw,
                             sendSMS(from, s.result.response,
                                     IF FalsyNumber(sendblueNumber)
                                     THEN s.convo.sendblue_number ELSE sendblueNumber,
                                     sendOk),
                             sendSMS(from, ApologyReply, sendblueNumber, fallbackOk)), E)

\* app.post('/sms'): the SendBlue webhook
Sms(from, body, sendblueNumber, isOutbound, E) ==
  IF isOutbound
  THEN /\ last' = Observed("echo", from, body, "none", NoStep, <<>>, E)
       /\ UNCHANGED <<convos, customers, messages, files, now, creds, trial, genCount, notices>>
  ELSE \E ext \in ExtractAnswers(LoadedState(from), E),
          ai \in AiAnswers(LoadedState(from), E),
          dep \in DeployAnswers(LoadedState(from), E) :
       \E s \in {Step(from, body, sendblueNumber, ext, ai, dep)} :
       \E sendOk \in (IF s.result.threw THEN {TRUE} ELSE E.oks), fallbackOk \in E.oks :
         /\ s.result.threw \/ ~sendOk \/ fallbackOk
         /\ Commit(from, body, s, E)
         /\ last' = Observed("sms", from, body, s.convo.state, s.result,
                       Sends(s.result.threw,
                             sendSMS(from, s.result.response,
                                     IF FalsyNumber(sendblueNumber)
                                     THEN s.convo.sendblue_number ELSE sendblueNumber,
                                     sendOk),
                             sendSMS(from, ApologyReply, sendblueNumber, fallbackOk)), E)

\* app.post('/sms-twilio'): the Twilio webhook
SmsTwilio(from, body, to, E) ==
  \E ext \in ExtractAnswers(LoadedState(from), E),
     ai \in AiAnswers(LoadedState(from), E),
     dep \in DeployAnswers(LoadedState(from), E),
     twilioNumber \in {IF FalsyNumber(to) THEN TollFreeNumber ELSE to} :
  \E s \in {Step(from, body, twilioNumber, ext, ai, dep)} :
  \E sendOk \in (IF s.result.threw THEN {TRUE} ELSE E.oks), fallbackOk \in E.oks :
    /\ s.result.threw \/ ~sendOk \/ fallbackOk
    /\ Commit(from, body, s, E)
    /\ last' = Observed("sms-twilio", from, body, s.convo.state, s.result,
                  Sends(s.result.threw,
                        sendSMSTwilio(from, s.result.response, twilioNumber, sendOk),
                        sendSMSTwilio(from, ApologyReply, twilioNumber, fallbackOk)), E)

\* the Marco number stored for a phone: rows[0]?.sendblue_number || ''
StoredNumber(cv, phone) ==
  IF phone \in DOMAIN cv /\ ~FalsyNumber(cv[phone].sendblue_number)
  THEN cv[phone].sendblue_number ELSE NoNumber

\* a payment webhook that takes the activation back when the confirmation
\* fails to send
StripeWebhookUndoneByFailedSend(phone, E) ==
  \E sendOk \in E.oks :
    /\ convos' = IF sendOk THEN Activate(convos, customers, phone).convos ELSE convos
    /\ customers' = IF sendOk THEN Activate(convos, customers, phone).customers ELSE customers
    /\ last' = Observed("stripe", phone, <<>>, "none", NoStep,
                  <<sendReply(phone, PaidNotice, StoredNumber(convos, phone), sendOk)>>, E)
    /\ UNCHANGED <<messages, files, now, creds, trial, genCount, notices>>

\* app.post('/stripe-webhook'), a verified checkout.session.completed for phone;
\* a failed confirmation send is logged and swallowed
StripeWebhook(phone, E) ==
  \E sendOk \in E.oks :
    /\ convos' = Activate(convos, customers, phone).convos
    /\ customers' = Activate(convos, customers, phone).customers
    /\ last' = Observed("stripe", phone, <<>>, "none", NoStep,
                  <<sendReply(phone, PaidNotice, StoredNumber(convos, phone), sendOk)>>, E)
    /\ UNCHANGED <<messages, files, now, creds, trial, genCount, notices>>

\* app.post('/admin/bypass/:phone')
AdminBypass(phone, E) ==
  \E sendOk \in E.oks :
    /\ convos' = Activate(convos, customers, phone).convos
    /\ customers' = Activate(convos, customers, phone).customers
    /\ last' = Observed("bypass", phone, <<>>, "none", NoStep,
                  <<sendReply(phone, BypassNotice, StoredNumber(convos, phone), sendOk)>>, E)
    /\ UNCHANGED <<messages, files, now, creds, trial, genCount, notices>>

\* a reset that also clears the site_deleted flag
AdminResetClearsDeleted(phone, E) ==
  /\ convos' = Update(convos, phone,
                      [ state |-> "greeting", site_name |-> Null, site_type |-> Null,
                        site_url |-> Null, site_html |-> Null, site_subdomain |-> Null,
                        paid_at |-> NoTime, expires_at |-> NoTime, site_deleted |-> FALSE ])
  /\ messages' = SelectSeq(messages, LAMBDA m : m.phone # phone)
  /\ last' = Observed("reset", phone, <<>>, "none", NoStep, <<>>, E)
  /\ UNCHANGED <<customers, files, now, creds, trial, genCount, notices>>

\* an admin reset that purges the whole message log
AdminResetPurgesLog(phone, E) ==
  /\ convos' = Update(convos, phone,
                      [ state |-> "greeting", site_name |-> Null, site_type |-> Null,
                        site_url |-> Null, site_html |-> Null, site_subdomain |-> Null,
                        paid_at |-> NoTime, expires_at |-> NoTime ])
  /\ messages' = <<>>
  /\ last' = Observed("reset", phone, <<>>, "none", NoStep, <<>>, E)
  /\ UNCHANGED <<customers, files, now, creds, trial, genCount, notices>>

\* app.post('/admin/reset/:phone')
AdminReset(phone, E) ==
  /\ convos' = Update(convos, phone,
                      [ state |-> "greeting", site_name |-> Null, site_type |-> Null,
                        site_url |-> Null, site_html |-> Null, site_subdomain |-> Null,
                        paid_at |-> NoTime, expires_at |-> NoTime ])
  /\ messages' = SelectSeq(messages, LAMBDA m : m.phone # phone)
  /\ last' = Observed("reset", phone, <<>>, "none", NoStep, <<>>, E)
  /\ UNCHANGED <<customers, files, now, creds, trial, genCount, notices>>

\* app.post('/admin/activate/:phone'): a failed send leaves the state 'greeting'
AdminActivate(phone, E) ==
  \E sendOk \in E.oks :
    /\ convos' = Update(convos, phone, [state |-> IF sendOk THEN "ask_name" ELSE "greeting"])
    /\ customers' = Update(customers, phone, [status |-> "new"])
    /\ last' = Observed("activate", phone, <<>>, "none", NoStep,
                  <<sendReply(phone, EntryPrompt, StoredNumber(convos, phone), sendOk)>>, E)
    /\ UNCHANGED <<messages, files, now, creds, trial, genCount, notices>>

\* app.post('/waitlist'): a failed send is logged and swallowed
Waitlist(phone, E) ==
  \E sendOk \in E.oks :
    /\ customers' = InsertIfAbsent(customers, phone, NewCustomer("waitlist"))
    /\ convos' = InsertIfAbsent(convos, phone, NewRow(phone, "waitlist"))
    /\ last' = Observed("waitlist", phone, <<>>, "none", NoStep,
                  <<sendSMS(phone, WaitlistReply, NoNumber, sendOk)>>, E)
    /\ UNCHANGED <<messages, files, now, creds, trial, genCount, notices>>

\* a sweep that selects by the expiry time alone
OverdueByTimeAlone(cv, t) ==
  { p \in DOMAIN cv : cv[p].expires_at # NoTime /\ cv[p].expires_at < t }

\* the rows app.post('/cleanup-expired') selects
Overdue(cv, t) ==
  { p \in DOMAIN cv :
      /\ cv[p].state = "awaiting_payment"
      /\ cv[p].expires_at # NoTime
      /\ cv[p].expires_at < t
      /\ cv[p].site_deleted = FALSE }

\* a per-row UPDATE of the sweep that also drops the stored document
ExpireRowDropsDocument(row) ==
  [row EXCEPT !.state = "expired", !.site_deleted = TRUE, !.site_html = Null]

\* the per-row UPDATE of the sweep
ExpireRow(row) == [row EXCEPT !.state = "expired", !.site_deleted = TRUE]

\* the expiry notices of a sweep, one per selected row
RECURSIVE NoticesFor(_, _, _)
NoticesFor(rows, cv, failing) ==
  IF rows = {} THEN <<>>
  ELSE LET p == CHOOSE q \in rows : TRUE
       IN <<sendReply(p, ExpiredNotice, cv[p].sendblue_number, p \notin failing)>>
          \o NoticesFor(rows \ {p}, cv, failing)

\* a sweep that leaves unexpired the rows whose notice failed to send
CleanupExpiredSkipsUnnotified(E) ==
  \E expired \in {Overdue(convos, now)} :
  \E failing \in {f \in SUBSET expired : expired \ f = {} \/ TRUE \in E.oks} :
     /\ failing = {} \/ FALSE \in E.oks
     /\ \A p \in expired : notices[p] < MaxNotices
     /\ convos' = [p \in DOMAIN convos |->
                     IF p \in expired \ failing THEN ExpireRow(convos[p]) ELSE convos[p]]
     /\ customers' = [p \in DOMAIN customers |->
                        IF p \in expired \ failing
                        THEN Merge(customers[p], [status |-> "expired"])
                        ELSE customers[p]]
     /\ notices' = [p \in Phones |-> IF p \in expired THEN notices[p] + 1 ELSE notices[p]]
     /\ last' = [ Observed("cleanup", "", <<>>, "none", NoStep,
                           NoticesFor(expired, convos, failing), E)
                  EXCEPT !.cleaned = expired ]
     /\ UNCHANGED <<messages, files, now, creds, trial, genCount>>

\* app.post('/cleanup-expired'): every selected row is expired and notified; a
\* failed notice is logged and the loop goes on
CleanupExpired(E) ==
  \E expired \in {Overdue(convos, now)} :
  \E failing \in {f \in SUBSET expired : expired \ f = {} \/ TRUE \in E.oks} :
     /\ failing = {} \/ FALSE \in E.oks
     /\ \A p \in expired : notices[p] < MaxNotices
     /\ convos' = [p \in DOMAIN convos |->
                     IF p \in expired THEN ExpireRow(convos[p]) ELSE convos[p]]
     /\ customers' = [p \in DOMAIN customers |->
                        IF p \in expired THEN Merge(customers[p], [status |-> "expired"])
                        ELSE customers[p]]
     /\ notices' = [p \in Phones |-> IF p \in expired THEN notices[p] + 1 ELSE notices[p]]
     /\ last' = [ Observed("cleanup", "", <<>>, "none", NoStep,
                           NoticesFor(expired, convos, failing), E)
                  EXCEPT !.cleaned = expired ]
     /\ UNCHANGED <<messages, files, now, creds, trial, genCount>>

\* time passes
Tick(E) ==
  /\ now + TickHours <= MaxTime
  /\ now' = now + TickHours
  /\ last' = Observed("tick", "", <<>>, "none", NoStep, <<>>, E)
  /\ UNCHANGED <<convos, customers, messages, files, creds, trial, genCount, notices>>

\* ---------------------------------------------------------------- Init

NoTable == <<>>

\* the tables holding one conversation, of phone p in state st, as
\* INSERT INTO conversations (phone, state) and the customer insert leave them
TablesWith(p, st) ==
  [ convos |-> InsertIfAbsent(NoTable, p, NewRow(p, st)),
    customers |-> InsertIfAbsent(NoTable, p, NewCustomer("new")) ]

NoTrial == [pc |-> "none", input |-> <<>>, once |-> <<>>, twice |-> <<>>]

Idle ==
  [ kind |-> "init", phone |-> "", loaded |-> "none", threw |-> FALSE,
    persisted |-> "none", generated |-> 0, extractCalls |-> 0,
    msg |-> <<>>, reply |-> <<>>, deploys |-> <<>>, sends |-> <<>>, cleaned |-> {} ]

InitWith(tables) ==
  /\ convos = tables.convos
  /\ customers = tables.customers
  /\ messages = <<>>
  /\ files = NoTable
  /\ now = 0
  /\ creds \in BOOLEAN
  /\ genCount = [p \in Phones |-> 0]
  /\ notices = [p \in Phones |-> 0]
  /\ last = Idle
  /\ trial = NoTrial

\* -------------------------------------------- the conversation of a phone

Alice == "+15550001"
FlowMessages == { SecretPadded, <<"c","h","o","w","d","e","r"," ","j","o","s","h">>, <<"h","i">> }
Flow ==
  [ extracts |-> { Returned(<<" ","B","o","b","'","s"," ","P","l","u","m","b","i","n","g"," ">>), Threw },
    ai |-> { Returned(<<"w","h","a","t"," ","e","l","s","e",".">>),
             Returned(<<"d","o","n","e","."," ">> \o START_MARKER \o <<"\n","<","h","t","m","l",">","v","2","<","/","h","t","m","l",">","\n">> \o END_MARKER \o <<"\n">>),
             Threw },
    deploys |-> DeployOutcomes,
    oks |-> {TRUE},
    log |-> FALSE,
    watch |-> FALSE ]

Init ==
  \E tables \in { [convos |-> NoTable, customers |-> NoTable] }
               \cup { TablesWith(Alice, st) : st \in LegacyStates } :
    InitWith(tables)

Next ==
  \/ \E m \in FlowMessages, echo \in BOOLEAN : Sms(Alice, m, PrimaryNumber, echo, Flow)
  \/ StripeWebhook(Alice, Flow)
  \/ AdminBypass(Alice, Flow)
  \/ AdminReset(Alice, Flow)
  \/ AdminActivate(Alice, Flow)
  \/ Waitlist(Alice, Flow)
  \/ CleanupExpired(Flow)
  \/ Tick(Flow)

Spec == Init /\ [][Next]_vars

\* ------------------------------------------ the onboarding of a phone

\* names and types the Extraction Service may return: a name with an
\* apostrophe and spaces around it, one without a letter or digit, an empty one
OnboardFlow ==
  [ extracts |-> { Returned(<<" ","B","o","b","'","s"," ","P","l","u","m","b","i","n","g"," ">>), Returned(<<"!","!">>), Returned(<<>>), Threw },
    ai |-> { Returned(<<"w","h","a","t"," ","e","l","s","e",".">>) },
    deploys |-> DeployOutcomes,
    oks |-> {TRUE},
    log |-> FALSE,
    watch |-> TRUE ]

\* the conversation as an admin reset leaves it: in greeting, nothing stored
InitOnboard == InitWith(TablesWith(Alice, "greeting"))

NextOnboard ==
  \/ \E m \in FlowMessages : Sms(Alice, m, PrimaryNumber, FALSE, OnboardFlow)
  \/ Tick(OnboardFlow)

SpecOnboard == InitOnboard /\ [][NextOnboard]_vars

\* ------------------------------------------- handlers that interleave

\* Every await of a handler lets another handler run.  The steps below cut
\* the /sms handler after it has loaded the conversation and after
\* processState has returned, and the sweep after its SELECT and after each
\* row; trial holds what the handlers in flight have read so far.

Handlers == {1, 2}

\* a handler that is not running
Parked ==
  [ pc |-> "idle", from |-> "", body |-> <<>>, number |-> NoNumber,
    convo |-> NewRow("", "none"), result |-> NoStep, extracted |-> NoFields ]

NoSweep == [pc |-> "idle", rows |-> <<>>]
NoFlight == [pc |-> "flight", sms |-> [h \in Handlers |-> Parked], sweep |-> NoSweep]

InFlight == {h \in Handlers : trial.sms[h].pc # "idle"}

\* app.post('/sms') up to processState: the inbound row is logged, the
\* conversation loaded or created, the number bound
SmsLoad(h, from, body, sendblueNumber, E) ==
  /\ trial.sms[h].pc = "idle"
  /\ ~E.log \/ Len(messages) + Cardinality(InFlight) + 2 <= MaxLog
  /\ \E got \in {getOrCreateConversation(convos, customers, from)} :
       /\ convos' = IF ~FalsyNumber(sendblueNumber) /\ FalsyNumber(got.convos[from].sendblue_number)
                    THEN Update(got.convos, from, [sendblue_number |-> sendblueNumber])
                    ELSE got.convos
       /\ customers' = got.customers
       /\ trial' = [trial EXCEPT !.sms[h] =
                      [ pc |-> "loaded", from |-> from, body |-> body, number |-> sendblueNumber,
                        convo |-> got.convos[from], result |-> NoStep, extracted |-> NoFields ]]
       /\ last' = Observed("sms-load", from, body, got.convos[from].state, NoStep, <<>>, E)
  /\ messages' = IF E.log THEN Append(messages, Inbound(from, body)) ELSE messages
  /\ UNCHANGED <<files, now, creds, genCount, notices>>

\* what a handler keeps of processState's return
Kept(r) ==
  [ threw |-> r.threw, newState |-> r.newState, response |-> r.response,
    generated |-> r.generated, extractCalls |-> r.extractCalls, deploys |-> r.deploys ]

\* a handler that reads the conversation again before processState and acts
\* on the state it finds then
SmsProcessReloads(h, E) ==
  /\ trial.sms[h].pc = "loaded"
  /\ \E f \in {trial.sms[h]} :
     \E ext \in ExtractAnswers(convos[f.from].state, E), ai \in AiAnswers(convos[f.from].state, E),
        dep \in DeployAnswers(convos[f.from].state, E) :
     \E r \in {processState(convos, customers, files, convos[f.from], f.body, ext, ai, dep)} :
       /\ genCount[f.from] + r.generated <= MaxGen
       /\ convos' = r.convos
       /\ customers' = r.customers
       /\ files' = r.files
       /\ genCount' = [genCount EXCEPT ![f.from] = @ + r.generated]
       /\ IF r.threw
          THEN /\ trial' = [trial EXCEPT !.sms[h] = Parked]
               /\ \E fallbackOk \in E.oks :
                    last' = Observed("sms", f.from, f.body, f.convo.state, Kept(r),
                                     <<sendSMS(f.from, ApologyReply, f.number, fallbackOk)>>, E)
          ELSE /\ trial' = [trial EXCEPT !.sms[h].pc = "processed", !.sms[h].result = Kept(r),
                                         !.sms[h].extracted = r.extracted]
               /\ last' = Observed("sms-process", f.from, f.body, f.convo.state, Kept(r), <<>>, E)
  /\ UNCHANGED <<messages, now, creds, notices>>

\* app.post('/sms'), processState(convo, body): the transition of the state
\* the handler loaded, over the tables as they are now
SmsProcess(h, E) ==
  /\ trial.sms[h].pc = "loaded"
  /\ \E f \in {trial.sms[h]} :
     \E ext \in ExtractAnswers(f.convo.state, E), ai \in AiAnswers(f.convo.state, E),
        dep \in DeployAnswers(f.convo.state, E) :
     \E r \in {processState(convos, customers, files, f.convo, f.body, ext, ai, dep)} :
       /\ genCount[f.from] + r.generated <= MaxGen
       /\ convos' = r.convos
       /\ customers' = r.customers
       /\ files' = r.files
       /\ genCount' = [genCount EXCEPT ![f.from] = @ + r.generated]
       /\ IF r.threw
          THEN /\ trial' = [trial EXCEPT !.sms[h] = Parked]
               /\ \E fallbackOk \in E.oks :
                    last' = Observed("sms", f.from, f.body, f.convo.state, Kept(r),
                                     <<sendSMS(f.from, ApologyReply, f.number, fallbackOk)>>, E)
          ELSE /\ trial' = [trial EXCEPT !.sms[h].pc = "processed", !.sms[h].result = Kept(r),
                                         !.sms[h].extracted = r.extracted]
               /\ last' = Observed("sms-process", f.from, f.body, f.convo.state, Kept(r), <<>>, E)
  /\ UNCHANGED <<messages, now, creds, notices>>

\* app.post('/sms') after processState: the returned state and fields are
\* stored, the reply is logged and sent
SmsFinish(h, E) ==
  /\ trial.sms[h].pc = "processed"
  /\ \E f \in {trial.sms[h]} :
       /\ convos' = updateConversation(convos, f.from, f.result.newState, f.extracted)
       /\ messages' = IF E.log THEN Append(messages, Outbound(f.from, f.result.response))
                      ELSE messages
       /\ \E sendOk \in E.oks, fallbackOk \in E.oks :
            /\ ~sendOk \/ fallbackOk
            /\ last' = Observed("sms", f.from, f.body, f.convo.state, f.result,
                          Sends(FALSE,
                                sendSMS(f.from, f.result.response,
                                        IF FalsyNumber(f.number)
                                        THEN f.convo.sendblue_number ELSE f.number, sendOk),
                                sendSMS(f.from, ApologyReply, f.number, fallbackOk)), E)
  /\ trial' = [trial EXCEPT !.sms[h] = Parked]
  /\ UNCHANGED <<customers, files, now, creds, genCount, notices>>

\* app.post('/cleanup-expired'), the SELECT: the overdue rows, each with the
\* number it held
CleanupSelect(E) ==
  /\ trial.sweep.pc = "idle"
  /\ \E expired \in {Overdue(convos, now)} :
       /\ trial' = [trial EXCEPT !.sweep =
                      IF expired = {} THEN NoSweep
                      ELSE [pc |-> "rows", rows |-> [p \in expired |-> convos[p].sendblue_number]]]
       /\ last' = Observed("cleanup-select", "", <<>>, "none", NoStep, <<>>, E)
  /\ UNCHANGED <<convos, customers, messages, files, now, creds, genCount, notices>>

\* app.post('/cleanup-expired'), one turn of the loop: the row of the phone is
\* expired by phone alone, its customer too, and the notice is sent
CleanupRow(E) ==
  /\ trial.sweep.pc = "rows"
  /\ \E p \in DOMAIN trial.sweep.rows, sendOk \in E.oks :
       /\ notices[p] < MaxNotices
       /\ convos' = IF p \in DOMAIN convos THEN [convos EXCEPT ![p] = ExpireRow(@)] ELSE convos
       /\ customers' = Update(customers, p, [status |-> "expired"])
       /\ notices' = [notices EXCEPT ![p] = @ + 1]
       /\ trial' = [trial EXCEPT !.sweep =
                      IF DOMAIN trial.sweep.rows = {p} THEN NoSweep
                      ELSE [ pc |-> "rows",
                             rows |-> [q \in DOMAIN trial.sweep.rows \ {p} |-> trial.sweep.rows[q]] ]]
       /\ last' = [ Observed("cleanup", "", <<>>, "none", NoStep,
                             <<sendReply(p, ExpiredNotice, trial.sweep.rows[p], sendOk)>>, E)
                    EXCEPT !.cleaned = {p} ]
  /\ UNCHANGED <<messages, files, now, creds, genCount>>

\* the services answer, the sends succeed, the log is kept
RaceFlow ==
  [ extracts |-> {Returned(<<"b","a","k","e","r","y">>)}, ai |-> {Returned(<<"o","k",".">>)}, deploys |-> {"ok"},
    oks |-> {TRUE}, log |-> TRUE, watch |-> TRUE ]

\* a conversation that has given its name, no handler in flight
InitRace ==
  /\ convos = [p \in {Alice} |->
                 Merge(NewRow(Alice, "ask_type"),
                       [site_name |-> <<"A","l">>, sendblue_number |-> PrimaryNumber])]
  /\ customers = [p \in {Alice} |-> NewCustomer("new")]
  /\ messages = <<>>
  /\ files = NoTable
  /\ now = 0
  /\ creds = FALSE
  /\ genCount = [p \in Phones |-> 0]
  /\ notices = [p \in Phones |-> 0]
  /\ last = Idle
  /\ trial = NoFlight

NextRace ==
  \/ \E h \in Handlers : SmsLoad(h, Alice, <<"h","i">>, PrimaryNumber, RaceFlow)
  \/ \E h \in Handlers : SmsProcess(h, RaceFlow)
  \/ \E h \in Handlers : SmsFinish(h, RaceFlow)
  \/ StripeWebhook(Alice, RaceFlow)
  \/ AdminBypass(Alice, RaceFlow)
  \/ CleanupSelect(RaceFlow)
  \/ CleanupRow(RaceFlow)
  \/ Tick(RaceFlow)

SpecRace == InitRace /\ [][NextRace]_vars

\* ---------------------------------------- properties of the conversation

\* the message is the secret once trimmed and lower-cased
IsSecret(m) == Trim(ToLowerCase(m)) = <<"c","h","o","w","d","e","r">>

\* what the inbound message m does to phone p in the current state, for each
\* answer the services of E may give
StepsOn(p, m, E) ==
  { Step(p, m, PrimaryNumber, ext, ai, dep).result :
      ext \in ExtractAnswers(LoadedState(p), E),
      ai \in AiAnswers(LoadedState(p), E),
      dep \in DeployAnswers(LoadedState(p), E) }

\* the last operation was an inbound message to the SendBlue webhook
AfterSms == last.kind = "sms"
\* ... and its step ran to the end
AfterCompletedSms == last.kind = "sms" /\ ~last.threw

CanonicalEdges ==
  { <<"waitlist", "waitlist">>, <<"greeting", "ask_name">>, <<"ask_name", "ask_type">>,
    <<"ask_type", "awaiting_payment">>, <<"awaiting_payment", "active">>,
    <<"awaiting_payment", "awaiting_payment">>, <<"awaiting_payment", "ask_password">>,
    <<"ask_password", "active">>, <<"ask_password", "ask_password">>,
    <<"expired", "ask_name">>, <<"active", "active">> }

CanonicalEdge(a, b) ==
  IF a \in KnownStates THEN <<a, b>> \in CanonicalEdges ELSE b = "ask_name"

\* C1, as stated: after every inbound-message step, the state loaded before
\* the step and the state stored after it form an edge of the canonical graph
EveryStepIsCanonicalEdge ==
  AfterSms => CanonicalEdge(last.loaded, convos[last.phone].state)

\* C1, amended: every inbound-message step that runs to the end stores a state
\* that forms an edge of the canonical graph with the state it loaded, and a
\* step that is aborted by an exception stores no state: the state stays the
\* loaded one
CompletedStepIsCanonicalEdge ==
  AfterSms =>
    IF last.threw
    THEN last.persisted = "none" /\ convos[last.phone].state = last.loaded
    ELSE /\ CanonicalEdge(last.loaded, last.persisted)
         /\ convos[last.phone].state = last.persisted

CanonicalEdgeSeen ==
  /\ AfterCompletedSms
  /\ last.loaded = "awaiting_payment"
  /\ convos[last.phone].state = "ask_password"

\* C2: generateSite runs in an inbound-message step exactly when the step
\* loaded ask_type and its extraction succeeded, it runs once, and the count of
\* its runs grows by one exactly on the transitions from ask_type to
\* awaiting_payment; a further message after the step generates nothing
GeneratesOncePerExit ==
  /\ [](AfterSms =>
          /\ last.generated \in {0, 1}
          /\ last.generated = 1 <=> (last.loaded = "ask_type" /\ ~last.threw))
  /\ [][\A p \in Phones :
          genCount'[p] - genCount[p] =
            IF /\ p \in DOMAIN convos
               /\ convos[p].state = "ask_type"
               /\ convos'[p].state = "awaiting_payment"
            THEN 1 ELSE 0]_vars

GeneratedTwiceSeen ==
  /\ genCount[Alice] = 2
  /\ AfterCompletedSms
  /\ last.loaded = "awaiting_payment"
  /\ last.generated = 0

\* the stored state of phone p is st
InState(p, st) == p \in DOMAIN convos /\ convos[p].state = st

\* C3, as stated: a conversation leaves ask_password only for active, and only
\* by an inbound message that is the secret once trimmed and lower-cased
OnlySecretLeavesAskPassword ==
  [][\A p \in {Alice} :
       (InState(p, "ask_password") /\ convos'[p].state # "ask_password") =>
         /\ convos'[p].state = "active"
         /\ \E m \in FlowMessages :
              IsSecret(m) /\ Sms(p, m, PrimaryNumber, FALSE, Flow)]_vars

\* C3, amended: to a conversation in ask_password, an inbound message that is
\* the secret once trimmed and lower-cased stores active, and any other inbound
\* message stores ask_password again and is answered with the rebuff; every
\* inbound-message step from ask_password ends in one of the two
SecretOpensAskPassword ==
  /\ \A m \in FlowMessages :
       InState(Alice, "ask_password") =>
         \A r \in StepsOn(Alice, m, Flow) :
           /\ ~r.threw
           /\ IF IsSecret(m)
              THEN r.newState = "active" /\ r.convos[Alice].state = "active"
              ELSE /\ r.newState = "ask_password"
                   /\ r.convos[Alice].state = "ask_password"
                   /\ r.response = RebuffReply
  /\ (AfterSms /\ last.loaded = "ask_password") =>
       /\ ~last.threw
       /\ last.persisted \in {"active", "ask_password"}
       /\ convos[last.phone].state = last.persisted

AskPasswordOpenedSeen ==
  /\ AfterCompletedSms
  /\ last.loaded = "ask_password"
  /\ convos[last.phone].state = "active"

\* C4: to a conversation in awaiting_payment, an inbound message that is the
\* secret once trimmed and lower-cased stores active with paid_at set,
\* expires_at cleared and the customer launched; otherwise a message matching
\* the referral pattern stores ask_password and leaves paid_at and expires_at
\* as they were; otherwise the state stays awaiting_payment and the reply is
\* the payment nag carrying the payment link of the site reply
AwaitingPaymentRoutes ==
  \A m \in FlowMessages :
    InState(Alice, "awaiting_payment") =>
      \A r \in StepsOn(Alice, m, Flow) :
        LET before == convos[Alice]
            after == r.convos[Alice]
        IN /\ ~r.threw
           /\ after.state = r.newState
           /\ IF IsSecret(m)
              THEN /\ after.state = "active"
                   /\ after.paid_at = now
                   /\ after.expires_at = NoTime
                   /\ r.customers[Alice].status = "launched"
              ELSE IF ClaimsReferral(m)
              THEN /\ after.state = "ask_password"
                   /\ after.paid_at = before.paid_at
                   /\ after.expires_at = before.expires_at
                   /\ r.customers = customers
              ELSE /\ after.state = "awaiting_payment"
                   /\ Occurrences(r.response, PaymentLink) = 1
                   /\ Occurrences(SiteReply(before.site_url), PaymentLink) = 1
                   /\ r.response = NagReply

ReferralRouteSeen ==
  /\ AfterCompletedSms
  /\ last.loaded = "awaiting_payment"
  /\ convos[last.phone].state = "ask_password"
  /\ convos[last.phone].paid_at = NoTime
  /\ convos[last.phone].expires_at = now + ExpiryHours

\* C5: a sweep expires every overdue conversation, marks its site deleted and
\* dispatches one expiry notice for it; after a sweep no conversation is
\* overdue, so a sweep that follows a sweep selects nothing and changes
\* nothing; over a conversation's life at most one expiry notice is dispatched,
\* and exactly one once its site is marked deleted
SweepIsIdempotent ==
  /\ [](/\ \A p \in Phones :
             notices[p] = IF p \in DOMAIN convos /\ convos[p].site_deleted THEN 1 ELSE 0
        /\ last.kind = "cleanup" =>
             /\ Overdue(convos, now) = {}
             /\ \A p \in last.cleaned :
                  /\ convos[p].state = "expired"
                  /\ convos[p].site_deleted
                  /\ customers[p].status = "expired")
  /\ [][CleanupExpired(Flow) =>
          /\ last'.cleaned = Overdue(convos, now)
          /\ \A p \in Overdue(convos, now) : notices'[p] = notices[p] + 1
          /\ last.kind = "cleanup" =>
               /\ last'.cleaned = {}
               /\ UNCHANGED <<convos, customers, messages, files, notices>>]_vars

SecondSweepSeen ==
  /\ last.kind = "cleanup"
  /\ last.cleaned = {}
  /\ InState(Alice, "expired")
  /\ convos[Alice].site_deleted
  /\ notices[Alice] = 1

\* the text holds exactly one start marker and one end marker, the end marker
\* after the start marker
OneMarkerPair(t) ==
  /\ Occurrences(t, START_MARKER) = 1
  /\ Occurrences(t, END_MARKER) = 1
  /\ IndexOf(t, START_MARKER, 1) + Len(START_MARKER) <= IndexOf(t, END_MARKER, 1)

MarkerFree(t) == Occurrences(t, START_MARKER) = 0 /\ Occurrences(t, END_MARKER) = 0

\* C7: in an active conversation, whenever the assistant's output holds
\* exactly one well-formed marker pair, the reply of the step holds neither
\* marker and the document the step stores holds neither marker
MarkerStrippingIsClean ==
  InState(Alice, "active") =>
    \A ai \in AiOutcomes, m \in FlowMessages, dep \in DeployAnswers("active", Flow) :
      (ai.ok /\ OneMarkerPair(ai.text)) =>
        LET r == Step(Alice, m, PrimaryNumber, NotCalled, ai, dep).result
        IN /\ ~r.threw
           /\ MarkerFree(r.response)
           /\ MarkerFree(r.convos[Alice].site_html)

\* the conversation's row shows a site built at this hour
SiteBuilt(p) ==
  LET row == convos[p]
  IN /\ row.state = "awaiting_payment"
     /\ ~Falsy(row.site_url)
     /\ row.site_subdomain # Null
     /\ ~Falsy(row.site_html)
     /\ row.site_url \in {ManagedUrl(row.site_subdomain), LocalUrl(row.site_subdomain)}
     /\ row.expires_at = now + ExpiryHours
     /\ customers[p].status = "building"

\* C9, as stated: after an inbound message is processed in ask_type with a
\* site_name stored, the conversation is in awaiting_payment with site_url,
\* site_subdomain and site_html stored, the customer building and expires_at
\* 48 hours ahead
AskTypeStepBuildsSite ==
  (AfterSms /\ last.loaded = "ask_type" /\ ~Falsy(convos[last.phone].site_name)) =>
    SiteBuilt(last.phone)

\* C9, amended: when the extraction of an inbound message processed in
\* ask_type with a site_name stored succeeds, the step ends in
\* awaiting_payment with site_url (the deployed or the local URL of the
\* subdomain), site_subdomain and site_html stored, the customer building,
\* expires_at 48 hours ahead and a reply that holds the stored URL; when the
\* extraction throws, the step stores nothing and the state stays ask_type
CompletedAskTypeStepBuildsSite ==
  /\ (AfterSms /\ last.loaded = "ask_type" /\ ~Falsy(convos[last.phone].site_name)) =>
       IF last.threw
       THEN /\ convos[last.phone].state = "ask_type"
            /\ last.generated = 0
            /\ last.reply = Null
       ELSE /\ SiteBuilt(last.phone)
            /\ Occurrences(last.reply, convos[last.phone].site_url) = 1
            /\ convos[last.phone].site_subdomain \in DOMAIN files
            /\ files[convos[last.phone].site_subdomain] = convos[last.phone].site_html
  /\ \A m \in FlowMessages :
       (InState(Alice, "ask_type") /\ ~Falsy(convos[Alice].site_name)) =>
         \A r \in StepsOn(Alice, m, OnboardFlow) :
           IF r.threw
           THEN r.convos = convos /\ r.customers = customers /\ r.files = files
           ELSE /\ r.newState = "awaiting_payment"
                /\ ~Falsy(r.convos[Alice].site_url)
                /\ r.response = SiteReply(r.convos[Alice].site_url)

SiteBuiltSeen ==
  /\ AfterCompletedSms
  /\ last.loaded = "ask_type"
  /\ creds
  /\ convos[Alice].site_url = ManagedUrl(<<"b","o","b","s","-","p","l","u","m","b","i","n","g">>)
  /\ Occurrences(last.reply, ManagedUrl(<<"b","o","b","s","-","p","l","u","m","b","i","n","g">>)) = 1
  /\ convos[Alice].expires_at = now + ExpiryHours

\* C10: an inbound message to a conversation whose stored state is none of the
\* states the server knows is answered with the entry prompt and stores
\* ask_name; the step does not throw and does not call the Extraction Service
UnknownStateRecovers ==
  /\ (AfterSms /\ last.loaded \notin KnownStates) =>
       /\ ~last.threw
       /\ last.extractCalls = 0
       /\ last.persisted = "ask_name"
       /\ convos[last.phone].state = "ask_name"
  /\ \A m \in FlowMessages :
       LoadedState(Alice) \notin KnownStates =>
         \A r \in StepsOn(Alice, m, Flow) :
           /\ ~r.threw
           /\ r.extractCalls = 0
           /\ r.response = EntryPrompt
           /\ r.convos[Alice].state = "ask_name"

UnknownStateRecoveredSeen ==
  /\ AfterCompletedSms
  /\ last.loaded \in LegacyStates
  /\ convos[Alice].state = "ask_name"

\* the surroundings of Flow with every output the assistant may give
AnyAssistant == [Flow EXCEPT !.ai = AiOutcomes]

\* every step of an active conversation returns and stores active
ActiveStepStaysActive ==
  /\ (AfterSms /\ last.loaded = "active") =>
       /\ convos[last.phone].state = "active"
       /\ ~last.threw => last.persisted = "active"
  /\ \A m \in FlowMessages :
       InState(Alice, "active") =>
         \A r \in StepsOn(Alice, m, AnyAssistant) :
           /\ ~r.threw => r.newState = "active"
           /\ r.convos[Alice].state = "active"

\* C11: active is terminal for inbound messages: a step in active that runs to
\* the end returns and stores active, whatever the assistant wrote and whether
\* or not a site resolves; a step the assistant's failure aborts leaves the
\* state active; so no inbound message takes a conversation out of active
ActiveIsTerminal ==
  /\ []ActiveStepStaysActive
  /\ [][(InState(Alice, "active") /\ last'.kind \in {"sms", "echo"})
         => convos'[Alice].state = "active"]_vars

\* an active conversation whose site an inbound message has edited
ActiveEditSeen ==
  /\ AfterCompletedSms
  /\ last.loaded = "active"
  /\ convos[Alice].state = "active"
  /\ convos[Alice].site_html = <<"<","h","t","m","l",">","v","2","<","/","h","t","m","l",">">>

\* the states a conversation is in between site generation and activation
DraftStates == {"awaiting_payment", "ask_password", "expired"}

\* C12 as stated: a conversation with a stored site document is active
StoredDocumentOnlyWhenActive ==
  \A p \in DOMAIN convos : convos[p].site_html # Null => convos[p].state = "active"

\* C12: a stored site document implies that generateSite has run for the
\* conversation and that it is not in waitlist; every conversation in
\* awaiting_payment, ask_password or expired has a stored site document
DocumentFollowsGeneration ==
  \A p \in DOMAIN convos :
    /\ convos[p].site_html # Null =>
         /\ genCount[p] >= 1
         /\ convos[p].site_subdomain # Null
         /\ convos[p].state # "waitlist"
    /\ convos[p].state \in DraftStates => convos[p].site_html # Null

\* the step out of ask_type has stored the document of a conversation that
\* now awaits payment
DraftDocumentSeen ==
  /\ AfterCompletedSms
  /\ last.loaded = "ask_type"
  /\ convos[Alice].state = "awaiting_payment"
  /\ convos[Alice].site_html # Null

\* ------------------------------------- one phone on both Marco numbers

\* the receiving number a request to /sms carries (the SendBlue line, or none)
\* and the To value a request to /sms-twilio carries (the Twilio line, or none)
SmsNumbers == {PrimaryNumber, NoNumber}
TwilioNumbers == {TollFreeNumber, NoNumber}

\* services and sends that succeed, with the texts and sends of every
\* operation observed
CarrierFlow ==
  [ extracts |-> { Returned(<<"B","o","b">>) },
    ai |-> { Returned(<<"o","k",".">>) },
    deploys |-> {"ok"},
    oks |-> {TRUE},
    log |-> FALSE,
    watch |-> TRUE ]

CarrierMessages == { <<"h","i">> }

InitCarrier == InitWith([convos |-> NoTable, customers |-> NoTable])

NextCarrier ==
  \/ \E m \in CarrierMessages, n \in SmsNumbers : Sms(Alice, m, n, FALSE, CarrierFlow)
  \/ \E m \in CarrierMessages, to \in TwilioNumbers : SmsTwilio(Alice, m, to, CarrierFlow)
  \/ StripeWebhook(Alice, CarrierFlow)
  \/ AdminBypass(Alice, CarrierFlow)
  \/ AdminReset(Alice, CarrierFlow)
  \/ AdminActivate(Alice, CarrierFlow)
  \/ Waitlist(Alice, CarrierFlow)
  \/ CleanupExpired(CarrierFlow)
  \/ Tick(CarrierFlow)

SpecCarrier == InitCarrier /\ [][NextCarrier]_vars

\* the number a request to /sms-twilio binds: req.body.To, or the toll-free one
TwilioNumber(to) == IF FalsyNumber(to) THEN TollFreeNumber ELSE to

\* an inbound message binds an unbound conversation to the number it carries
\* and leaves a bound one as it is
FirstNumberBinds ==
  \A m \in CarrierMessages, n \in SmsNumbers \cup {TwilioNumber(to) : to \in TwilioNumbers} :
    \A ext \in ExtractAnswers(LoadedState(Alice), CarrierFlow),
       ai \in AiAnswers(LoadedState(Alice), CarrierFlow),
       dep \in DeployAnswers(LoadedState(Alice), CarrierFlow) :
      \A r \in {Step(Alice, m, n, ext, ai, dep).result} :
        StoredNumber(r.convos, Alice) =
          IF StoredNumber(convos, Alice) # NoNumber THEN StoredNumber(convos, Alice) ELSE n

BackendOf(n) == IF n = TollFreeNumber THEN "twilio" ELSE "sendblue"

\* C14: every message an operation sends to a phone, the reply to an inbound
\* message included, goes to the carrier backend selected by the number the
\* phone's conversation is bound to
EverySendFollowsBinding ==
  \A i \in 1..Len(last.sends) :
    last.sends[i].to \in DOMAIN convos
      => last.sends[i].via = BackendOf(StoredNumber(convos, last.sends[i].to))

\* ------------------------------- one phone, services and sends that fail

\* the Extraction Service and the assistant may throw, and every send may fail
FaultyFlow ==
  [ extracts |-> { Returned(<<"B","o","b">>), Threw },
    ai |-> { Returned(<<"o","k",".">>), Threw },
    deploys |-> {"ok"},
    oks |-> BOOLEAN,
    log |-> FALSE,
    watch |-> TRUE ]

\* a plain message and one that claims a referral
FaultyMessages == { <<"h","i">>, <<"j","o","s","h">> }

InitFaulty == InitWith([convos |-> NoTable, customers |-> NoTable])

NextFaulty ==
  \/ \E m \in FaultyMessages : Sms(Alice, m, PrimaryNumber, FALSE, FaultyFlow)
  \/ \E m \in FaultyMessages : SmsTwilio(Alice, m, TollFreeNumber, FaultyFlow)
  \/ StripeWebhook(Alice, FaultyFlow)
  \/ AdminActivate(Alice, FaultyFlow)
  \/ Waitlist(Alice, FaultyFlow)
  \/ CleanupExpired(FaultyFlow)
  \/ Tick(FaultyFlow)

SpecFaulty == InitFaulty /\ [][NextFaulty]_vars

\* the last operation was an inbound message, on either webhook
AfterInbound == last.kind \in {"sms", "sms-twilio"}

\* C15: an inbound-message step that the Extraction Service or the assistant
\* fails leaves the conversation record as it was before the step, and sends
\* one message, the apology
AbortedStepPersistsNothing ==
  [][ (last'.kind \in {"sms", "sms-twilio"} /\ last'.threw) =>
        /\ Alice \in DOMAIN convos
        /\ convos'[Alice] = convos[Alice]
        /\ Len(last'.sends) = 1
        /\ last'.sends[1].content = ApologyReply
    ]_vars

\* the one message an operation other than an inbound webhook sends
NoticeOf(kind) ==
  CASE kind = "stripe" -> PaidNotice
    [] kind = "activate" -> EntryPrompt
    [] kind = "waitlist" -> WaitlistReply
    [] kind = "cleanup" -> ExpiredNotice
    [] OTHER -> Null

\* C16: when the send of a reply fails, the apology is sent once in its place;
\* when that fails too nothing more is sent; and no other operation sends
\* anything but its own notice, so a failed message is never sent again
FailedReplyFallsBackOnce ==
  /\ (AfterInbound /\ ~last.threw) =>
       /\ Len(last.sends) \in {1, 2}
       /\ last.sends[1].content = last.reply
       /\ last.sends[1].ok <=> Len(last.sends) = 1
       /\ Len(last.sends) = 2 =>
            /\ last.sends[2].content = ApologyReply
            /\ last.sends[2].to = last.phone
            /\ last.sends[2].via = last.sends[1].via
  /\ ~AfterInbound =>
       /\ Len(last.sends) <= IF last.kind = "cleanup" THEN Cardinality(last.cleaned) ELSE 1
       /\ \A i \in 1..Len(last.sends) : last.sends[i].content = NoticeOf(last.kind)

\* the reply and the apology have both failed to send
BothSendsFailedSeen ==
  /\ AfterInbound
  /\ ~last.threw
  /\ Len(last.sends) = 2
  /\ ~last.sends[1].ok
  /\ ~last.sends[2].ok

\* C18: a payment webhook for a phone with a conversation, whatever its state,
\* leaves the conversation active with paid_at set to the time of the webhook
\* and expires_at cleared, and the customer launched, whether or not the
\* confirmation was sent; it changes nothing else of the record
PaymentActivates ==
  [][ (last'.kind = "stripe" /\ last'.phone \in DOMAIN convos) =>
        /\ convos'[last'.phone] =
             [convos[last'.phone] EXCEPT !.state = "active", !.paid_at = now,
                                        !.expires_at = NoTime]
        /\ customers'[last'.phone].status = "launched"
        /\ customers'[last'.phone].paid_at = now
        /\ Len(last'.sends) = 1
        /\ last'.sends[1].content = PaidNotice
    ]_vars

\* a payment webhook has activated an expired conversation and its
\* confirmation has failed to send
PaidAfterExpirySeen ==
  /\ last.kind = "stripe"
  /\ ~last.sends[1].ok
  /\ InState(Alice, "active")
  /\ convos[Alice].site_deleted
  /\ convos[Alice].paid_at = now
  /\ convos[Alice].expires_at = NoTime
  /\ customers[Alice].status = "launched"

\* C17: a failed deployment fails no step. With credentials set and the
\* deployment failing, the step out of ask_type still stores awaiting_payment,
\* the document and the local URL, and replies with the site reply for that
\* URL; an edit in active of a deployed site still stores the new document
\* and file and returns the reply it returns when the redeploy succeeds
DeployFailureIsAbsorbed ==
  \A m \in FlowMessages :
    /\ (creds /\ InState(Alice, "ask_type")) =>
         \A ext \in {e \in Flow.extracts : e.ok} :
           \A bad \in {Step(Alice, m, PrimaryNumber, ext, NotCalled, "fail").result},
              good \in {Step(Alice, m, PrimaryNumber, ext, NotCalled, "ok").result} :
             /\ ~bad.threw
             /\ bad.newState = "awaiting_payment"
             /\ bad.convos[Alice].state = "awaiting_payment"
             /\ bad.convos[Alice].site_url = LocalUrl(bad.convos[Alice].site_subdomain)
             /\ bad.response = SiteReply(bad.convos[Alice].site_url)
             /\ bad.convos[Alice] = [good.convos[Alice] EXCEPT !.site_url = bad.convos[Alice].site_url]
             /\ bad.files = good.files
             /\ Len(bad.deploys) = 1 /\ ~bad.deploys[1].ok
    /\ (creds /\ InState(Alice, "active") /\ IsCloudflare(convos[Alice].site_url)) =>
         \A ai \in {a \in AiOutcomes : a.ok /\ HtmlMatch(a.text).found} :
           \A bad \in {Step(Alice, m, PrimaryNumber, NotCalled, ai, "fail").result},
              good \in {Step(Alice, m, PrimaryNumber, NotCalled, ai, "ok").result} :
             /\ ~bad.threw
             /\ bad.newState = "active"
             /\ bad.convos[Alice].site_html = Trim(HtmlMatch(ai.text).group)
             /\ bad.convos = good.convos
             /\ bad.files = good.files
             /\ bad.response = good.response
             /\ Len(bad.deploys) = 1 /\ ~bad.deploys[1].ok

\* with credentials set a conversation holds a local URL: its deployment failed
FailedDeploySeen ==
  /\ AfterCompletedSms
  /\ last.loaded = "ask_type"
  /\ creds
  /\ InState(Alice, "awaiting_payment")
  /\ convos[Alice].site_url = LocalUrl(<<"b","o","b","s","-","p","l","u","m","b","i","n","g">>)

\* ---------------------------------------------------------- two phones

Carol == "+15550002"

\* the names a business may have given
PairNames == { <<"B","o","b","'","s"," ","P","l","u","m","b","i","n","g">>, <<"A","l">> }

\* two conversations that have texted the primary number up to ask_type
PairTables(nameA, nameC) ==
  [ convos |->
      [p \in {Alice, Carol} |->
         Merge(NewRow(p, "ask_type"),
               [ site_name |-> IF p = Alice THEN nameA ELSE nameC,
                 sendblue_number |-> PrimaryNumber ])],
    customers |-> [p \in {Alice, Carol} |-> NewCustomer("new")] ]

\* the services answer and the replies are sent; the sweep runs with notices
\* that may fail to send
PairFlow ==
  [ extracts |-> { Returned(<<"p","l","u","m","b","i","n","g">>), Returned(<<"b","a","k","e","r","y">>) },
    ai |-> { Returned(START_MARKER \o <<"<","h","t","m","l",">","v","2","<","/","h","t","m","l",">">> \o END_MARKER) },
    deploys |-> {"ok"},
    oks |-> {TRUE},
    log |-> FALSE,
    watch |-> TRUE ]

\* no deployment credentials are set: every site is served from the sites directory
InitPair ==
  \E nameA \in PairNames, nameC \in PairNames :
    InitWith(PairTables(nameA, nameC)) /\ ~creds

NextPair ==
  \/ \E p \in {Alice, Carol} : Sms(p, <<"h","i">>, PrimaryNumber, FALSE, PairFlow)
  \/ CleanupExpired([PairFlow EXCEPT !.oks = BOOLEAN])
  \/ Tick(PairFlow)

SpecPair == InitPair /\ [][NextPair]_vars

\* the file the server serves for a subdomain, if there is one
FileOf(fl, subdomain) == IF subdomain \in DOMAIN fl THEN fl[subdomain] ELSE Null

\* C19: an inbound message of one phone leaves the other phone's conversation
\* record, its messages in the log and its site artifact, the stored document
\* and the file served for its subdomain, as they were
OtherPhoneUntouched ==
  [][ \A a \in {Alice, Carol}, b \in {Alice, Carol} :
        (a # b /\ last'.kind = "sms" /\ last'.phone = a) =>
          /\ convos'[b] = convos[b]
          /\ customers'[b] = customers[b]
          /\ SelectSeq(messages', LAMBDA x : x.phone = b)
               = SelectSeq(messages, LAMBDA x : x.phone = b)
          /\ convos[b].site_subdomain # Null =>
               FileOf(files', convos[b].site_subdomain) = FileOf(files, convos[b].site_subdomain)
    ]_vars

\* C20: a sweep expires every row it selected, in the conversation and the
\* customer table, and dispatches one expiry notice to each of them, whichever
\* of the notices fail to send
SweepToleratesFailedNotice ==
  last.kind = "cleanup" =>
    /\ Len(last.sends) = Cardinality(last.cleaned)
    /\ \A p \in last.cleaned :
         /\ convos[p].state = "expired"
         /\ convos[p].site_deleted
         /\ customers[p].status = "expired"
         /\ Cardinality({i \in 1..Len(last.sends) :
                           last.sends[i].to = p /\ last.sends[i].content = ExpiredNotice}) = 1

\* a sweep of two conversations in which one notice failed and the other
\* was sent
OneNoticeFailedSeen ==
  /\ last.kind = "cleanup"
  /\ last.cleaned = {Alice, Carol}
  /\ \E i \in 1..2 : ~last.sends[i].ok /\ last.sends[3 - i].ok
  /\ InState(Alice, "expired")
  /\ InState(Carol, "expired")

\* ------------------------------------- two phones, the message log kept

\* the services answer, the sends succeed, the message log is kept
LogFlow ==
  [ extracts |-> { Returned(<<"B","o","b">>) },
    ai |-> { Returned(<<"o","k",".">>) },
    deploys |-> {"ok"},
    oks |-> {TRUE},
    log |-> TRUE,
    watch |-> FALSE ]

\* the surroundings of the first phone's messages: the reply's send may fail,
\* and the texts and sends of the request are observed
LogWatched == [LogFlow EXCEPT !.oks = BOOLEAN, !.watch = TRUE]

InitLog == InitWith([convos |-> NoTable, customers |-> NoTable]) /\ ~creds

NextLog ==
  \/ \E echo \in BOOLEAN : Sms(Alice, <<"h","i">>, PrimaryNumber, echo, LogWatched)
  \/ Sms(Carol, <<"h","i">>, PrimaryNumber, FALSE, LogFlow)
  \/ SmsTwilio(Alice, <<"h","i">>, TollFreeNumber, LogFlow)
  \/ StripeWebhook(Alice, LogFlow)
  \/ AdminBypass(Alice, LogFlow)
  \/ \E p \in {Alice, Carol} : AdminReset(p, LogFlow)
  \/ AdminActivate(Alice, LogFlow)
  \/ Waitlist(Alice, LogFlow)
  \/ CleanupExpired(LogFlow)
  \/ Tick(LogFlow)

SpecLog == InitLog /\ [][NextLog]_vars

\* the entries of the message log that belong to phone p
LogOf(log, p) == SelectSeq(log, LAMBDA x : x.phone = p)

\* after an admin reset of a phone that has a conversation, the next inbound
\* message is answered with the entry prompt and stores ask_name
ResetThenEntry ==
  (last.kind = "reset" /\ last.phone \in DOMAIN convos) =>
    \A r \in StepsOn(last.phone, <<"h","i">>, LogFlow) :
      /\ ~r.threw
      /\ r.response = EntryPrompt
      /\ r.convos[last.phone].state = "ask_name"

\* C21: an admin reset keeps the conversation row, clears site_name,
\* site_type, site_url, site_html, site_subdomain, paid_at and expires_at,
\* stores greeting, deletes the phone's messages and nothing else: the other
\* phone's row and messages, the customers and the files stay; the next
\* inbound message then yields the entry prompt and ask_name
ResetRestartsOnePhone ==
  /\ []ResetThenEntry
  /\ [][ last'.kind = "reset" =>
          /\ DOMAIN convos' = DOMAIN convos
          /\ \A q \in DOMAIN convos :
               convos'[q] =
                 IF q = last'.phone
                 THEN [convos[q] EXCEPT !.state = "greeting", !.site_name = Null,
                                        !.site_type = Null, !.site_url = Null,
                                        !.site_html = Null, !.site_subdomain = Null,
                                        !.paid_at = NoTime, !.expires_at = NoTime]
                 ELSE convos[q]
          /\ LogOf(messages', last'.phone) = <<>>
          /\ \A q \in {Alice, Carol} \ {last'.phone} : LogOf(messages', q) = LogOf(messages, q)
          /\ customers' = customers
          /\ files' = files
      ]_vars

\* a conversation with a generated site has been reset while the log held
\* messages of the other phone
ResetSeen ==
  /\ last.kind = "reset"
  /\ last.phone = Alice
  /\ InState(Alice, "greeting")
  /\ convos[Alice].site_html = Null
  /\ <<"b","o","b">> \in DOMAIN files
  /\ LogOf(messages, Carol) # <<>>

\* log a is an initial part of log b
IsPrefix(a, b) == Len(a) <= Len(b) /\ SubSeq(b, 1, Len(a)) = a

\* C22: every operation other than the admin reset leaves the entries of the
\* message log as they are and at most appends to them, and no operation, the
\* reset included, removes a conversation row
LogIsAppendOnly ==
  [][ /\ last'.kind # "reset" => IsPrefix(messages, messages')
      /\ DOMAIN convos \subseteq DOMAIN convos'
    ]_vars

\* the log holds the exchanges of both phones
BothPhonesLoggedSeen ==
  /\ last.kind = "sms"
  /\ Len(messages) = 4
  /\ LogOf(messages, Alice) # <<>>
  /\ LogOf(messages, Carol) # <<>>

Ignored ==
  /\ UNCHANGED <<convos, customers, messages, files, now, genCount, notices>>
  /\ last'.sends = <<>>
  /\ last'.deploys = <<>>
  /\ last'.extractCalls = 0
  /\ last'.generated = 0

\* C24 as stated: a request with the outbound flag set is ignored on either
\* webhook; /sms-twilio does not read the flag, so what it does with any
\* request is what it does with a flagged one
EveryEchoIgnored == [][last'.kind \in {"echo", "sms-twilio"} => Ignored]_vars

\* C24: a request to /sms with the outbound flag set is ignored completely:
\* it appends nothing to the log, creates and changes no conversation or
\* customer, calls no service and sends no reply
SendBlueEchoIgnored == [][last'.kind = "echo" => Ignored]_vars

\* an echo has been delivered for a phone that has a conversation and a
\* logged exchange
EchoSeen ==
  /\ last.kind = "echo"
  /\ last.phone = Alice
  /\ Alice \in DOMAIN convos
  /\ LogOf(messages, Alice) # <<>>

\* an inbound message to a phone without a conversation, or with one in
\* waitlist, is answered with the queued notice and stores waitlist
WaitlistStepStays ==
  LoadedState(Alice) = "waitlist" =>
    \A m \in FlowMessages :
      \A r \in StepsOn(Alice, m, Flow) :
        /\ ~r.threw
        /\ r.response = WaitlistReply
        /\ r.newState = "waitlist"
        /\ r.convos[Alice].state = "waitlist"

StatusMirrorsState ==
  /\ \A p \in DOMAIN convos :
       /\ p \in DOMAIN customers
       /\ convos[p].state = "active" => customers[p].status = "launched"
  /\ (AfterCompletedSms /\ last.loaded = "ask_type")
       => customers[last.phone].status = "building"
  /\ (AfterCompletedSms /\ last.loaded # "active" /\ last.persisted = "active")
       => customers[last.phone].status = "launched"
  /\ (last.kind \in {"stripe", "bypass"} /\ last.phone \in DOMAIN customers)
       => customers[last.phone].status = "launched"
  /\ last.kind = "cleanup"
       => \A p \in last.cleaned : customers[p].status = "expired"

\* the secret has activated a conversation whose customer was expired
LaunchedAfterExpirySeen ==
  /\ AfterCompletedSms
  /\ last.loaded = "awaiting_payment"
  /\ InState(Alice, "active")
  /\ convos[Alice].site_deleted
  /\ customers[Alice].status = "launched"

\* C27: after a completed inbound step the log ends with the inbound message
\* followed by the reply as outbound, the stored state is the one the
\* transition returned, and the first send is that reply, whether or not the
\* send succeeded: a failed send leaves the advanced state and the logged
\* reply in place
PipelineOrder ==
  /\ (AfterInbound /\ ~last.threw) =>
        /\ Len(messages) >= 2
        /\ messages[Len(messages) - 1].phone = last.phone
        /\ messages[Len(messages) - 1].direction = "inbound"
        /\ messages[Len(messages)].phone = last.phone
        /\ messages[Len(messages)].direction = "outbound"
        /\ convos[last.phone].state = last.persisted
  /\ (AfterCompletedSms /\ last.phone = Alice) =>
        /\ messages[Len(messages) - 1] = Inbound(Alice, last.msg)
        /\ messages[Len(messages)] = Outbound(Alice, last.reply)
        /\ Len(last.sends) >= 1
        /\ last.sends[1].content = last.reply
        /\ last.sends[1].to = Alice

\* the step out of ask_name stored ask_type and logged its reply, and the
\* reply failed to send
AdvancedDespiteFailedSendSeen ==
  /\ AfterCompletedSms
  /\ last.phone = Alice
  /\ last.loaded = "ask_name"
  /\ InState(Alice, "ask_type")
  /\ ~last.sends[1].ok
  /\ messages[Len(messages)] = Outbound(Alice, NameReply(<<"B","o","b">>))

\* the site the Site Template Generator makes of a name and a type
SiteOf(name, type) ==
  generateSiteHTML([ businessName |-> IF Falsy(name) THEN <<"M","y"," ","B","u","s","i","n","e","s","s">> ELSE name,
                     businessPhone |-> <<>>,
                     services |-> IF Falsy(type) THEN <<>> ELSE <<type>> ])
SlugOf(name) == generateSubdomain(IF Falsy(name) THEN <<"s","i","t","e">> ELSE name)

\* what a generate-site step leaves of phone p in the tables cv, cu and the
\* files fl, given the stored name and the type of the current message
GeneratedFrom(cv, cu, fl, p, name, type, siteUrl) ==
  /\ cv[p].state = "awaiting_payment"
  /\ cv[p].site_name = name
  /\ cv[p].site_type = type
  /\ cv[p].site_html = SiteOf(name, type)
  /\ cv[p].site_subdomain = SlugOf(name)
  /\ FileOf(fl, SlugOf(name)) = SiteOf(name, type)
  /\ cv[p].site_url = siteUrl
  /\ siteUrl \in {LocalUrl(SlugOf(name)), ManagedUrl(SlugOf(name))}
  /\ cv[p].expires_at = now + ExpiryHours
  /\ cu[p].status = "building"
  /\ cu[p].site_url = siteUrl

\* C28: a step in ask_type generates the site from the type extracted from
\* the current message, trimmed, and from the name the record already held,
\* whatever type the record held before; when it returns, the record holds
\* that type, the document, the subdomain, the URL and the 48-hour expiry, the
\* file is written, the customer is building, and the state stored with the
\* reply is awaiting_payment
GenerateUsesCurrentType ==
  /\ \A p \in DOMAIN convos :
       convos[p].state = "ask_type" =>
         \A ext \in PairFlow.extracts, dep \in DeployAnswers("ask_type", PairFlow) :
           \A r \in {Step(p, <<"h","i">>, PrimaryNumber, ext, NotCalled, dep).result} :
             /\ ~r.threw
             /\ r.newState = "awaiting_payment"
             /\ r.response = SiteReply(r.convos[p].site_url)
             /\ GeneratedFrom(r.convos, r.customers, r.files, p,
                              convos[p].site_name, Trim(ext.text), r.extracted.site_url)
  /\ (AfterCompletedSms /\ last.loaded = "ask_type") =>
       /\ last.persisted = "awaiting_payment"
       /\ GeneratedFrom(convos, customers, files, last.phone,
                        convos[last.phone].site_name, convos[last.phone].site_type,
                        convos[last.phone].site_url)
       /\ last.reply = SiteReply(convos[last.phone].site_url)

\* a second draft, generated for a record that held the type of the first:
\* the new document is the bakery's
SecondDraftSeen ==
  /\ AfterCompletedSms
  /\ last.loaded = "ask_type"
  /\ last.phone = Alice
  /\ genCount[Alice] = 2
  /\ convos[Alice].site_type = <<"b","a","k","e","r","y">>
  /\ convos[Alice].site_name = <<"p","l","u","m","b","i","n","g">>
  /\ convos[Alice].site_html = SiteOf(<<"p","l","u","m","b","i","n","g">>, <<"b","a","k","e","r","y">>)

\* C29: in an active conversation, when the assistant's output holds a marker
\* pair and a site document resolves, the step stores as site_html the trimmed
\* text the first pair encloses, writes it to the file of the resolved
\* subdomain, redeploys only a site whose stored URL is a textmarco.com URL,
\* and replies the output without the marked block, trimmed, or "done. refresh
\* the page." when nothing is left; when the output holds no marker pair the
\* reply is the output as it came, a stored site_html stays as it was, and
\* nothing is written or deployed
ActiveEditProtocol ==
  InState(Alice, "active") =>
    \A ai \in AiOutcomes, m \in FlowMessages, dep \in DeployAnswers("active", Flow) :
      ai.ok =>
        \A r \in {Step(Alice, m, PrimaryNumber, NotCalled, ai, dep).result},
           site \in {getSiteHTML(convos, files, Alice).site},
           pair \in {HtmlMatch(ai.text)} :
          /\ ~r.threw
          /\ (pair.found /\ site.found) =>
               /\ r.convos[Alice].site_html = Trim(pair.group)
               /\ FileOf(r.files, site.subdomain) = Trim(pair.group)
               /\ \A k \in DOMAIN r.files \ {site.subdomain} : FileOf(files, k) = r.files[k]
               /\ r.deploys # <<>> => IsCloudflare(convos[Alice].site_url)
               /\ (creds /\ IsCloudflare(convos[Alice].site_url)) =>
                    /\ Len(r.deploys) = 1
                    /\ r.deploys[1].subdomain = site.subdomain
                    /\ r.deploys[1].html = Trim(pair.group)
               /\ r.response = IF StripMarkers(ai.text) = <<>> THEN DoneReply
                                ELSE StripMarkers(ai.text)
          /\ ~pair.found =>
               /\ r.response = ai.text
               /\ ~Falsy(convos[Alice].site_html) =>
                    r.convos[Alice].site_html = convos[Alice].site_html
               /\ r.files = files
               /\ r.deploys = <<>>

\* an edit of a deployed site was stored and written to its file
DeployedSiteEditedSeen ==
  /\ AfterCompletedSms
  /\ last.loaded = "active"
  /\ creds
  /\ InState(Alice, "active")
  /\ IsCloudflare(convos[Alice].site_url)
  /\ convos[Alice].site_html = <<"<","h","t","m","l",">","v","2","<","/","h","t","m","l",">">>
  /\ FileOf(files, convos[Alice].site_subdomain) = <<"<","h","t","m","l",">","v","2","<","/","h","t","m","l",">">>

\* C38: an active conversation has paid_at set and no expires_at
ActiveIsPaid ==
  \A p \in DOMAIN convos :
    convos[p].state = "active" =>
      /\ convos[p].paid_at # NoTime
      /\ convos[p].expires_at = NoTime

\* a conversation whose draft had a deadline was activated by the secret
\* given in ask_password
ActivatedByPasswordSeen ==
  /\ AfterCompletedSms
  /\ last.loaded = "ask_password"
  /\ InState(Alice, "active")
  /\ ~Falsy(convos[Alice].site_url)
  /\ convos[Alice].paid_at = now
  /\ convos[Alice].expires_at = NoTime

\* C35: the admin activate route takes a waitlisted conversation to ask_name
\* with the customer new, and leaves the state of a conversation in any other
\* state as it is
ActivateOnlyFromWaitlist ==
  [][ \A p \in DOMAIN convos :
        (last'.kind = "activate" /\ last'.phone = p) =>
          IF convos[p].state = "waitlist"
          THEN convos'[p].state = "ask_name" /\ customers'[p].status = "new"
          ELSE convos'[p].state = convos[p].state ]_vars

\* ------------------------------------- a conversation swept once before

\* the server at start, or with a conversation whose first draft, made fifty
\* hours ago, the sweep has expired at this hour
InitSwept ==
  \/ Init
  \/ /\ convos = [p \in {Alice} |->
                    Merge(NewRow(Alice, "expired"),
                          [ site_name |-> <<"A","l">>, site_type |-> <<"b","a","k","e","r","y">>,
                            site_url |-> LocalUrl(<<"a","l">>), site_subdomain |-> <<"a","l">>,
                            site_html |-> SiteOf(<<"A","l">>, <<"b","a","k","e","r","y">>),
                            sendblue_number |-> PrimaryNumber,
                            expires_at |-> 0 - 2, site_deleted |-> TRUE ])]
     /\ customers = [p \in {Alice} |->
                       Merge(NewCustomer("expired"), [site_url |-> LocalUrl(<<"a","l">>)])]
     /\ files = [k \in {<<"a","l">>} |-> SiteOf(<<"A","l">>, <<"b","a","k","e","r","y">>)]
     /\ messages = <<>>
     /\ now = 0
     /\ creds \in BOOLEAN
     /\ genCount = [p \in Phones |-> 0]
     /\ notices = [p \in Phones |-> 0]
     /\ last = Idle
     /\ trial = NoTrial

SpecSwept == InitSwept /\ [][Next]_vars

\* C39: a site_deleted flag that is set stays set through every operation;
\* the sweep expires only conversations that are in awaiting_payment with the
\* flag unset, so it leaves alone a conversation that was expired before and
\* one that is in ask_password, whatever their expires_at
SiteDeletedIsMonotone ==
  [][ \A p \in DOMAIN convos :
        /\ p \in DOMAIN convos'
        /\ convos[p].site_deleted => convos'[p].site_deleted
        /\ (last'.kind = "cleanup" /\ (convos[p].site_deleted \/ convos[p].state = "ask_password"))
             => (p \notin last'.cleaned /\ convos'[p] = convos[p]) ]_vars

\* a conversation expired once has a second draft whose deadline has passed,
\* and the sweep that ran left it in awaiting_payment
SecondDraftOutlivesSweepSeen ==
  /\ last.kind = "cleanup"
  /\ last.cleaned = {}
  /\ InState(Alice, "awaiting_payment")
  /\ convos[Alice].site_deleted
  /\ convos[Alice].expires_at # NoTime
  /\ convos[Alice].expires_at < now

\* a conversation with an unswept draft whose deadline has passed sits in
\* ask_password, and the sweep that ran left it there
PasswordGameOutlivesSweepSeen ==
  /\ last.kind = "cleanup"
  /\ InState(Alice, "ask_password")
  /\ ~convos[Alice].site_deleted
  /\ convos[Alice].expires_at # NoTime
  /\ convos[Alice].expires_at < now

SiteDocs == [k \in {<<"a","l">>, <<"b","o","b">>} |-> IF k = <<"a","l">> THEN <<"<","h","t","m","l",">","a","l","<","/","h","t","m","l",">">> ELSE <<"<","h","t","m","l",">","b","o","b","<","/","h","t","m","l",">">>]

\* the assistant answers with or without an edit; a redeploy may fail
SiteFlow ==
  [ extracts |-> {NotCalled},
    ai |-> { Returned(<<"w","h","a","t"," ","e","l","s","e",".">>),
             Returned(<<"o","k","."," ">> \o START_MARKER \o <<"<","h","t","m","l",">","v","2","<","/","h","t","m","l",">">> \o END_MARKER) },
    deploys |-> DeployOutcomes,
    oks |-> {TRUE},
    log |-> FALSE,
    watch |-> TRUE ]

\* an active conversation whose stored document, stored subdomain and site
\* URL are each present or missing, as this server and the servers before it
\* left them, over a sites directory that holds any of the files
InitSite ==
  \E html \in {Null, <<>>, <<"<","h","t","m","l",">","v","1","<","/","h","t","m","l",">">>},
     sub \in {Null, <<>>, <<"a","l">>},
     url \in {Null, ManagedUrl(<<"b","o","b">>), LocalUrl(<<"b","o","b">>), <<"https://example.com">>},
     onDisk \in SUBSET DOMAIN SiteDocs :
    /\ convos = [p \in {Alice} |->
                   Merge(NewRow(Alice, "active"),
                         [ site_name |-> <<"A","l">>, site_html |-> html, site_subdomain |-> sub,
                           site_url |-> url, sendblue_number |-> PrimaryNumber,
                           paid_at |-> 0 ])]
    /\ customers = [p \in {Alice} |->
                      Merge(NewCustomer("launched"), [site_url |-> url, paid_at |-> 0])]
    /\ files = [k \in onDisk |-> SiteDocs[k]]
    /\ messages = <<>>
    /\ now = 0
    /\ creds \in BOOLEAN
    /\ genCount = [p \in Phones |-> 0]
    /\ notices = [p \in Phones |-> 0]
    /\ last = Idle
    /\ trial = NoTrial

NextSite == Sms(Alice, <<"h","i">>, PrimaryNumber, FALSE, SiteFlow)

SpecSite == InitSite /\ [][NextSite]_vars

\* the row of phone p in cv is that of convos but for the columns of upd
RowBut(cv, p, upd) == cv = Update(convos, p, upd)

\* C30: getSiteHTML resolves the stored site_html when it is non-empty, and
\* changes nothing; else the file of the stored subdomain, which it stores as
\* site_html; else the file of the subdomain parsed from the site URL, which
\* it stores as site_html together with that subdomain; else nothing.  When
\* nothing resolves, an active step whose assistant answers returns that
\* answer as its reply and stays active, and it leaves site_html, the files and
\* the deployments alone, marker pair or not
ThreeTierResolution ==
  InState(Alice, "active") =>
    \A row \in {convos[Alice]}, got \in {getSiteHTML(convos, files, Alice)} :
    \A byUrl \in {IF Falsy(row.site_url) THEN Null ELSE SubdomainOfUrl(row.site_url)} :
      /\ IF ~Falsy(row.site_html)
         THEN /\ got.site = SiteData(row.site_html, row.site_subdomain, row.site_url)
              /\ got.convos = convos
         ELSE IF ~Falsy(row.site_subdomain) /\ FileOf(files, row.site_subdomain) # Null
         THEN /\ got.site = SiteData(files[row.site_subdomain], row.site_subdomain, row.site_url)
              /\ RowBut(got.convos, Alice, [site_html |-> files[row.site_subdomain]])
         ELSE IF ~Falsy(byUrl) /\ FileOf(files, byUrl) # Null
         THEN /\ got.site = SiteData(files[byUrl], byUrl, row.site_url)
              /\ RowBut(got.convos, Alice, [site_html |-> files[byUrl], site_subdomain |-> byUrl])
         ELSE /\ ~got.site.found
              /\ got.convos = convos
      /\ ~got.site.found =>
           \A ai \in SiteFlow.ai, dep \in DeployAnswers("active", SiteFlow) :
             \A r \in {Step(Alice, <<"h","i">>, PrimaryNumber, NotCalled, ai, dep).result} :
               /\ ~r.threw
               /\ r.newState = "active"
               /\ r.response = ai.text
               /\ r.convos = convos
               /\ r.files = files
               /\ r.deploys = <<>>

\* a record that held neither document nor a subdomain with a file took both
\* from the file its site URL names
BackfilledFromUrlSeen ==
  /\ AfterCompletedSms
  /\ last.loaded = "active"
  /\ last.reply = <<"w","h","a","t"," ","e","l","s","e",".">>
  /\ convos[Alice].site_subdomain = <<"b","o","b">>
  /\ convos[Alice].site_html = SiteDocs[<<"b","o","b">>]
  /\ <<"a","l">> \in DOMAIN files

\* nothing resolved and the assistant sent an edit: the reply is its raw
\* output and nothing is stored
EditWithoutSiteSeen ==
  /\ AfterCompletedSms
  /\ last.loaded = "active"
  /\ HtmlMatch(last.reply).found
  /\ InState(Alice, "active")
  /\ Falsy(convos[Alice].site_html)
  /\ last.deploys = <<>>

\* --------------------------------------------- runs of selectTemplate

\* services a business may name: words of one template, of two, of none
ServiceWords ==
  { <<"p","l","u","m","b","i","n","g">>, <<"P","i","p","e"," ","R","e","p","a","i","r">>, <<"f","i","x"," ","l","e","a","k">>, <<"l","a","w","n">>, <<"t","r","e","e"," ","a","n","d"," ","y","a","r","d">>, <<"o","f","f","i","c","e"," ","c","l","e","a","n">>,
    <<"h","a","n","d","y","m","a","n">>, <<"b","a","k","e","r","y">>, <<>> }
MaxServices == 2
ServiceLists == UNION {[1..n -> ServiceWords] : n \in 0..MaxServices}

InitTemplate ==
  /\ convos = NoTable
  /\ customers = NoTable
  /\ messages = <<>>
  /\ files = NoTable
  /\ now = 0
  /\ creds = FALSE
  /\ genCount = [p \in Phones |-> 0]
  /\ notices = [p \in Phones |-> 0]
  /\ last = Idle
  /\ trial \in {[pc |-> "services", input |-> x, once |-> <<>>, twice |-> <<>>] : x \in ServiceLists}

\* templateEngine.selectTemplate(services)
SelectOnce ==
  /\ trial.pc = "services"
  /\ trial' = [trial EXCEPT !.pc = "selected", !.once = selectTemplate(trial.input)]
  /\ UNCHANGED <<convos, customers, messages, files, now, creds, genCount, notices, last>>

SpecTemplate == InitTemplate /\ [][SelectOnce]_vars

\* how many keywords of the template registered i-th occur in the services,
\* joined by spaces and lower-cased
Hits(i, services) == Score(TemplateIds[i], ToLowerCase(JoinSpace(services)))

\* C33: the selected template is general when there are no services or no
\* keyword of any template occurs in them; otherwise it is the template with
\* the most keywords occurring, the one registered first among those that
\* have the most
SelectsBestFirst ==
  trial.pc = "selected" =>
    \A services \in {trial.input}, picked \in {trial.once} :
      IF services = <<>> \/ \A i \in 1..Len(TemplateIds) : Hits(i, services) = 0
      THEN picked = "general"
      ELSE \E i \in 1..Len(TemplateIds) :
             /\ picked = TemplateIds[i]
             /\ \A j \in 1..Len(TemplateIds) : Hits(j, services) <= Hits(i, services)
             /\ \A j \in 1..(i - 1) : Hits(j, services) < Hits(i, services)

\* one keyword of handyman and one of plumbing occur: handyman, registered
\* first, is selected
TieGoesToFirstSeen ==
  /\ trial.pc = "selected"
  /\ trial.input = <<<<"P","i","p","e"," ","R","e","p","a","i","r">>>>
  /\ Hits(1, trial.input) = 1
  /\ Hits(2, trial.input) = 1
  /\ trial.once = "handyman"

\* ------------------------------------------- runs of the context builder

\* logs of up to MaxShortLog entries of either direction, of this phone or
\* another, and logs longer than the limit whose entries differ pairwise
MaxShortLog == 3
LongLogLengths == {ContextLimit + 1, ContextLimit + 2}
ShortEntries ==
  { Inbound(Alice, <<"h","i">>), Inbound(Alice, <<"y","o">>), Outbound(Alice, <<"h","i">>),
    Outbound(Alice, <<"o","k",".">>), Inbound(Carol, <<"h","i">>) }
ContextLogs ==
  UNION {[1..n -> ShortEntries] : n \in 0..MaxShortLog}
  \cup UNION { { [i \in 1..n |-> [phone |-> Alice, direction |-> d[i], body |-> <<LowerLetters[i]>>]] :
                   d \in [1..n -> {"inbound", "outbound"}] } : n \in LongLogLengths }

InitContext ==
  /\ convos = NoTable
  /\ customers = NoTable
  /\ messages = <<>>
  /\ files = NoTable
  /\ now = 0
  /\ creds = FALSE
  /\ genCount = [p \in Phones |-> 0]
  /\ notices = [p \in Phones |-> 0]
  /\ last = Idle
  /\ trial \in { [pc |-> "log", input |-> [log |-> l, message |-> m], once |-> <<>>, twice |-> <<>>] :
                   l \in ContextLogs, m \in {<<"h","i">>, <<>>} }

\* the context of an active step of Alice's over the log
ContextOnce ==
  /\ trial.pc = "log"
  /\ trial' = [trial EXCEPT !.pc = "built",
                            !.once = BuildContext(trial.input.log, Alice, trial.input.message)]
  /\ UNCHANGED <<convos, customers, messages, files, now, creds, genCount, notices, last>>

SpecContext == InitContext /\ [][ContextOnce]_vars

\* the lines of a text
RECURSIVE SplitLines(_)
SplitLines(s) ==
  IF IndexOf(s, <<"\n">>, 1) = 0 THEN <<s>>
  ELSE <<SubSeq(s, 1, IndexOf(s, <<"\n">>, 1) - 1)>>
       \o SplitLines(SubSeq(s, IndexOf(s, <<"\n">>, 1) + 1, Len(s)))

\* the lines of the turns, each with the role of its turn
RECURSIVE Pieces(_)
Pieces(turns) ==
  IF turns = <<>> THEN <<>>
  ELSE [i \in 1..Len(SplitLines(Head(turns).content)) |->
          [role |-> Head(turns).role, body |-> SplitLines(Head(turns).content)[i]]]
       \o Pieces(Tail(turns))

\* the last ten entries of Alice in the log, oldest first, as lines
ExpectedPieces(log) ==
  LET mine == SelectSeq(log, LAMBDA m : m.phone = Alice)
      skip == IF Len(mine) > 10 THEN Len(mine) - 10 ELSE 0
  IN [i \in 1..(Len(mine) - skip) |->
        [ role |-> IF mine[skip + i].direction = "inbound" THEN "user" ELSE "assistant",
          body |-> mine[skip + i].body ]]

\* C31: the context of an active step holds the last ten entries of the
\* phone's log at most, oldest first, and after them the current message when
\* it was added; no two turns side by side have the same role; and the last
\* turn is a user turn whose content contains the current message
ContextAlternates ==
  trial.pc = "built" =>
    \A ctx \in {trial.once}, message \in {trial.input.message} :
      /\ ctx # <<>>
      /\ ctx[Len(ctx)].role = "user"
      /\ Includes(ctx[Len(ctx)].content, message)
      /\ \A i \in 1..(Len(ctx) - 1) : ctx[i].role # ctx[i + 1].role
      /\ \A i \in 1..Len(ctx) : ctx[i].role \in {"user", "assistant"}
      /\ Pieces(ctx) \in { ExpectedPieces(trial.input.log),
                            Append(ExpectedPieces(trial.input.log),
                                   [role |-> "user", body |-> message]) }

\* a log of twelve entries that ends with an outbound one: the context
\* starts at the third entry and ends with the current message
LongLogEndingOutboundSeen ==
  /\ trial.pc = "built"
  /\ Len(trial.input.log) = 12
  /\ trial.input.log[12].direction = "outbound"
  /\ trial.input.log[11].direction = "outbound"
  /\ Pieces(trial.once)[1].body = <<"c">>
  /\ Len(Pieces(trial.once)) = 11
  /\ trial.once[Len(trial.once)] = [role |-> "user", content |-> <<"h","i">>]

\* an empty log: the context is the current message
EmptyLogSeen ==
  /\ trial.pc = "built"
  /\ trial.input.log = <<>>
  /\ trial.once = <<[role |-> "user", content |-> trial.input.message]>>

\* ------------------------------------- properties of interleaved handlers

\* C32: a handler that loaded the conversation in ask_type runs generate-site
\* when its processState runs, whatever another handler has done to the
\* conversation since, and every handler that finishes logs its own reply and
\* sends it; two deliveries of one message that both load before either has
\* finished generate the site twice
EveryLoadedAskTypeGenerates ==
  [][ \A h \in Handlers :
        /\ (trial.sms[h].pc = "loaded" /\ trial.sms[h].convo.state = "ask_type"
              /\ trial'.sms[h].pc = "processed") =>
             /\ genCount'[Alice] = genCount[Alice] + 1
             /\ last'.generated = 1
             /\ trial'.sms[h].result.newState = "awaiting_payment"
        /\ (trial.sms[h].pc = "processed" /\ trial'.sms[h].pc = "idle") =>
             /\ messages' = Append(messages, Outbound(Alice, trial.sms[h].result.response))
             /\ Len(last'.sends) = 1
             /\ last'.sends[1].content = trial.sms[h].result.response ]_vars

\* both deliveries are done: two inbound and two outbound entries are logged,
\* the site was generated twice, and the conversation made one transition
BothDeliveriesGeneratedSeen ==
  /\ InFlight = {}
  /\ last.kind = "sms"
  /\ last.loaded = "ask_type"
  /\ genCount[Alice] = 2
  /\ InState(Alice, "awaiting_payment")
  /\ Len(messages) = 4
  /\ messages[1] = Inbound(Alice, <<"h","i">>)
  /\ messages[2] = Inbound(Alice, <<"h","i">>)
  /\ messages[3].direction = "outbound"
  /\ messages[4] = messages[3]

\* C36: no step of an inbound-message handler takes an active conversation
\* out of active or gives it an expires_at, and once the handlers in flight
\* are done a conversation that was paid for is active without expires_at
ActivationIsDurable ==
  /\ [](( InFlight = {} /\ notices[Alice] = 0 /\ trial.sweep.pc = "idle"
           /\ convos[Alice].paid_at # NoTime )
          => (convos[Alice].state = "active" /\ convos[Alice].expires_at = NoTime))
  /\ [][ (convos[Alice].state = "active" /\ last'.kind \in {"sms-process", "sms"}) =>
           (convos'[Alice].state = "active" /\ convos'[Alice].expires_at = NoTime) ]_vars

\* C37: no step of the sweep takes an active conversation to expired
SweepSparesActive ==
  [][ \A p \in DOMAIN convos :
        (convos[p].state = "active" /\ last'.kind = "cleanup") =>
          convos'[p].state = "active" ]_vars

\* ------------------------------------------- runs of generateSubdomain

\* business names: an optional leading character, a run of letters as long
\* as the cap or a little shorter, and a short tail over SlugAlphabet
MaxTail == 3
SlugAlphabet == {"a", "B", "-", " ", "!"}
SlugPads == {0} \cup ((SubdomainMaxLen - MaxTail)..SubdomainMaxLen)
SlugHeads == {<<>>, <<"-">>}
SlugTails == UNION {[1..n -> SlugAlphabet] : n \in 0..MaxTail}
Pad(n) == [i \in 1..n |-> "a"]
SlugInputs == {h \o Pad(n) \o t : h \in SlugHeads, n \in SlugPads, t \in SlugTails}

InitSlug ==
  /\ convos = NoTable
  /\ customers = NoTable
  /\ messages = <<>>
  /\ files = NoTable
  /\ now = 0
  /\ creds = FALSE
  /\ genCount = [p \in Phones |-> 0]
  /\ notices = [p \in Phones |-> 0]
  /\ last = Idle
  /\ trial \in {[pc |-> "input", input |-> x, once |-> <<>>, twice |-> <<>>] : x \in SlugInputs}

\* templateEngine.generateSubdomain(name)
SlugOnce ==
  /\ trial.pc = "input"
  /\ trial' = [trial EXCEPT !.pc = "once", !.once = generateSubdomain(trial.input)]
  /\ UNCHANGED <<convos, customers, messages, files, now, creds, genCount, notices, last>>

\* templateEngine.generateSubdomain of the slug it returned
SlugTwice ==
  /\ trial.pc = "once"
  /\ trial' = [trial EXCEPT !.pc = "twice", !.twice = generateSubdomain(trial.once)]
  /\ UNCHANGED <<convos, customers, messages, files, now, creds, genCount, notices, last>>

NextSlug == SlugOnce \/ SlugTwice

SpecSlug == InitSlug /\ [][NextSlug]_vars

\* C8: the slug of a slug is that slug
SlugIdempotent ==
  trial.pc = "twice" => trial.twice = trial.once

\* a name longer than the cap whose cut leaves a hyphen at the end
SlugCutAtHyphenSeen ==
  /\ trial.pc = "twice"
  /\ Len(trial.input) > SubdomainMaxLen
  /\ Len(trial.once) = SubdomainMaxLen - 1
  /\ trial.twice = trial.once

\* an ASCII letter or digit
IsAlnum(c) ==
  \/ \E i \in 1..26 : LowerLetters[i] = c \/ UpperLetters[i] = c
  \/ c \in Digits

\* C40: the slug of any name holds only a-z, 0-9 and hyphens, no two hyphens
\* side by side, no hyphen at either end, at most 50 characters, and at least
\* one character when the name holds an ASCII letter or digit
SlugWellFormed ==
  trial.pc \in {"once", "twice"} =>
    \A slug \in {trial.once} :
      /\ \A i \in 1..Len(slug) :
           \/ \E k \in 1..26 : LowerLetters[k] = slug[i]
           \/ slug[i] \in Digits
           \/ slug[i] = "-"
      /\ \A i \in 1..(Len(slug) - 1) : ~(slug[i] = "-" /\ slug[i + 1] = "-")
      /\ slug # <<>> => (slug[1] # "-" /\ slug[Len(slug)] # "-")
      /\ Len(slug) <= 50
      /\ (\E i \in 1..Len(trial.input) : IsAlnum(trial.input[i])) => slug # <<>>

\* a name of a hyphen, fifty letters and a tail with a space next to a hyphen:
\* its slug is the first forty-nine letters
SlugOfLongNameSeen ==
  /\ trial.pc = "once"
  /\ trial.input = <<"-">> \o Pad(50) \o <<" ", "-", "B">>
  /\ trial.once = Pad(49)

\* ------------------------- the table-driven server (src/unnamed/part_002)

\* const STATES: the states of the table
TableStates ==
  { "greeting", "ask_type", "ask_biz_name", "ask_biz_category", "ask_personal_name",
    "ask_personal_purpose", "ask_phone", "building", "awaiting_payment", "expired",
    "active" }

\* a property the table's entry does not define
Undefined == <<"undefined">>

\* STATES[st].response
TableResponse(st) ==
  CASE st = "greeting" -> <<"your new website is a few texts away. business or personal?">>
    [] st = "ask_biz_name" -> <<"what's the business called?">>
    [] st = "ask_biz_category" -> <<"what type of business?">>
    [] st = "ask_personal_name" -> <<"what should we name your site?">>
    [] st = "ask_personal_purpose" -> <<"what's it for?">>
    [] st = "ask_phone" -> <<"what's the best phone number for the site?">>
    [] st = "building" -> <<"ok I think I have what I need. give me 2 min">>
    [] st = "awaiting_payment" ->
         <<"still waiting on that payment. $9.99 to keep your site live.">>
    [] st = "expired" -> <<"your draft expired. text me if you want to start over">>
    [] OTHER -> Undefined

\* the message contains one of the words, whatever the case: /w1|w2|.../i.test(msg)
TestAny(words, msg) == \E w \in words : Includes(ToLowerCase(msg), w)

\* STATES[st].validation is defined
HasValidation(st) == st = "ask_type"

\* STATES[st].validation(msg)
TableValidation(st, msg) ==
  TestAny({ <<"b","u","s","i","n","e","s","s">>, <<"p","e","r","s","o","n","a","l">>, <<"b","i","z">>, <<"c","o","m","p","a","n","y">>, <<"m","y","s","e","l","f">>, <<"m","e">> }, msg)

\* STATES[st].fallback || "sorry, didn't catch that"
TableFallback(st) ==
  IF st = "ask_type" THEN <<"business or personal?">> ELSE <<"sorry, didn't catch that">>

\* STATES[st].smartExtract
TableSmartExtract(st) ==
  CASE st \in {"ask_biz_name", "ask_personal_name"} -> "site_name"
    [] st \in {"ask_biz_category", "ask_personal_purpose"} -> "site_type"
    [] st = "ask_phone" -> "contact_phone"
    [] OTHER -> "none"

\* STATES[st].nextState, applied to the message where it is a function
TableNextState(st, msg) ==
  CASE st = "greeting" -> "ask_type"
    [] st = "ask_type" ->
         IF TestAny({ <<"b","u","s","i","n","e","s","s">>, <<"b","i","z">>, <<"c","o","m","p","a","n","y">> }, msg)
         THEN "ask_biz_name" ELSE "ask_personal_name"
    [] st = "ask_biz_name" -> "ask_biz_category"
    [] st = "ask_biz_category" -> "ask_phone"
    [] st = "ask_personal_name" -> "ask_personal_purpose"
    [] st = "ask_personal_purpose" -> "ask_phone"
    [] st = "ask_phone" -> "building"
    [] st = "building" -> "awaiting_payment"
    [] st = "awaiting_payment" -> "awaiting_payment"
    [] st = "expired" -> "greeting"
    [] OTHER -> "undefined"

TableSiteReply(siteUrl) ==
  <<"here's your first draft: ">> \o siteUrl
    \o <<"\n\nlike it? pay $9.99 to keep it live: ">> \o PaymentLink
    \o <<"\n\nsite disappears in 48 hours if you don't">>

\* a failed validation that sends the conversation back to the start
TableValidationFailedRestarts(cv, cu, fl, convo) ==
  Result(cv, cu, fl, TableResponse("greeting"), "greeting", NoFields)

\* processState of the table-driven server, the validation's failure
TableValidationFailed(cv, cu, fl, convo) ==
  Result(cv, cu, fl, TableFallback(convo.state), convo.state, NoFields)

\* processState of the table-driven server, the entry with action generateSite
TableGenerate(cv, cu, fl, convo, dep) ==
  LET site == generateSite(cv, fl, cv[convo.phone], dep)
      siteUrl == site.url
      cv2 == Update(site.convos, convo.phone,
                    [expires_at |-> now + ExpiryHours, site_url |-> siteUrl])
      cu2 == Update(cu, convo.phone, [status |-> "building", site_url |-> siteUrl])
  IN [ Result(cv2, cu2, site.files, TableSiteReply(siteUrl), "awaiting_payment",
              [site_url |-> siteUrl])
       EXCEPT !.generated = 1, !.deploys = site.deploys ]

\* processState of the table-driven server
TableProcessState(cv, cu, fl, convo, message, ext, ai, dep) ==
  IF convo.state = "active" THEN ProcessActive(cv, cu, fl, convo, message, ai, dep)
  ELSE IF convo.state \notin TableStates
  THEN Result(cv, cu, fl, TableResponse("greeting"), "ask_type", NoFields)
  ELSE IF HasValidation(convo.state) /\ ~TableValidation(convo.state, message)
  THEN TableValidationFailed(cv, cu, fl, convo)
  ELSE IF TableSmartExtract(convo.state) # "none"
  THEN IF ~ext.ok THEN Thrown(cv, cu, fl, 1)
       ELSE [ Result(cv, cu, fl, TableResponse(convo.state),
                     TableNextState(convo.state, message),
                     TableSmartExtract(convo.state) :> Trim(ext.text))
              EXCEPT !.extractCalls = 1 ]
  ELSE IF convo.state = "ask_type"
  THEN Result(cv, cu, fl, TableResponse(convo.state), TableNextState(convo.state, message),
              [is_personal |-> IF TestAny({ <<"p","e","r","s","o","n","a","l">>, <<"m","y","s","e","l","f">>, <<"m","e">> }, message)
                               THEN "true" ELSE "false"])
  ELSE IF convo.state = "building"
  THEN TableGenerate(cv, cu, fl, convo, dep)
  ELSE Result(cv, cu, fl, TableResponse(convo.state), TableNextState(convo.state, message),
              NoFields)

\* getOrCreateConversation of the table-driven server; its conversations
\* have the column is_personal
TableGetOrCreateConversation(cv, cu, phone) ==
  [ customers |-> InsertIfAbsent(cu, phone, NewCustomer("new")),
    convos |-> InsertIfAbsent(cv, phone,
                              [is_personal |-> "NULL"] @@ NewRow(phone, "greeting")) ]

TableLoadedState(phone) ==
  IF phone \in DOMAIN convos THEN convos[phone].state ELSE "greeting"

TableExtractAnswers(st, E) ==
  IF TableSmartExtract(st) # "none" THEN E.extracts ELSE {NotCalled}
TableDeployAnswers(st, E) ==
  IF creds /\ st \in {"building", "active"} THEN E.deploys ELSE {"ok"}

\* the try block of the table-driven server's webhook up to the reply
TableStep(from, body, marcoNumber, ext, ai, dep) ==
  LET got == TableGetOrCreateConversation(convos, customers, from)
      convo == got.convos[from]
      cv1 == IF ~FalsyNumber(marcoNumber) /\ FalsyNumber(convo.sendblue_number)
             THEN Update(got.convos, from, [sendblue_number |-> marcoNumber])
             ELSE got.convos
      r == TableProcessState(cv1, got.customers, files, convo, body, ext, ai, dep)
  IN [ convo |-> convo,
       result |-> IF r.threw THEN r
                  ELSE [r EXCEPT !.convos =
                          updateConversation(r.convos, from, r.newState, r.extracted)] ]

\* app.post('/sms') of the table-driven server
TableSms(from, body, sendblueNumber, isOutbound, E) ==
  IF isOutbound
  THEN /\ last' = Observed("echo", from, body, "none", NoStep, <<>>, E)
       /\ UNCHANGED <<convos, customers, messages, files, now, creds, trial, genCount, notices>>
  ELSE \E ext \in TableExtractAnswers(TableLoadedState(from), E),
          ai \in AiAnswers(TableLoadedState(from), E),
          dep \in TableDeployAnswers(TableLoadedState(from), E) :
       \E s \in {TableStep(from, body, sendblueNumber, ext, ai, dep)} :
       \E sendOk \in (IF s.result.threw THEN {TRUE} ELSE E.oks), fallbackOk \in E.oks :
         /\ s.result.threw \/ ~sendOk \/ fallbackOk
         /\ Commit(from, body, s, E)
         /\ last' = Observed("sms", from, body, s.convo.state, s.result,
                       Sends(s.result.threw,
                             sendSMS(from, s.result.response,
                                     IF FalsyNumber(sendblueNumber)
                                     THEN s.convo.sendblue_number ELSE sendblueNumber,
                                     sendOk),
                             sendSMS(from, ApologyReply, sendblueNumber, fallbackOk)), E)

TableMessages == { <<"B","u","s","i","n","e","s","s">>, <<"m","y"," ","h","o","m","e">>, <<"h","i">>, <<>> }
TableFlow ==
  [ extracts |-> { Returned(<<" ","B","o","b","'","s"," ","P","l","u","m","b","i","n","g"," ">>), Threw },
    ai |-> { Returned(<<"w","h","a","t"," ","e","l","s","e",".">>), Threw },
    deploys |-> DeployOutcomes,
    oks |-> {TRUE},
    log |-> FALSE,
    watch |-> TRUE ]

InitTable == InitWith([convos |-> NoTable, customers |-> NoTable])

NextTable ==
  \/ \E m \in TableMessages, number \in {PrimaryNumber, NoNumber}, echo \in BOOLEAN :
       TableSms(Alice, m, number, echo, TableFlow)
  \/ StripeWebhook(Alice, TableFlow)
  \/ CleanupExpired(TableFlow)
  \/ Tick(TableFlow)

SpecTable == InitTable /\ [][NextTable]_vars

\* C6: in a state whose table entry defines a validation predicate, an inbound
\* message that fails the predicate stores the state the step loaded, extracts
\* no field and calls no extraction, leaves every column of the conversation
\* but the bound number as it was, and is answered with the entry's fallback
ValidationFailureKeepsState ==
  /\ \A m \in TableMessages, number \in {PrimaryNumber, NoNumber} :
       (/\ Alice \in DOMAIN convos
        /\ HasValidation(convos[Alice].state)
        /\ ~TableValidation(convos[Alice].state, m)) =>
         \A r \in {TableStep(Alice, m, number, NotCalled, NotCalled, "ok").result} :
            /\ ~r.threw
            /\ r.extracted = NoFields
            /\ r.extractCalls = 0
            /\ r.generated = 0
            /\ r.response = TableFallback(convos[Alice].state)
            /\ r.convos[Alice].state = convos[Alice].state
            /\ \A f \in DOMAIN convos[Alice] \ {"sendblue_number"} :
                 r.convos[Alice][f] = convos[Alice][f]
            /\ r.customers = customers
            /\ r.files = files
  /\ (/\ AfterSms
      /\ HasValidation(last.loaded)
      /\ ~TableValidation(last.loaded, last.msg)) =>
       /\ ~last.threw
       /\ last.extractCalls = 0
       /\ last.reply = TableFallback(last.loaded)
       /\ last.reply = <<"business or personal?">>
       /\ convos[last.phone].state = last.loaded

ValidationFailureSeen ==
  /\ AfterSms
  /\ last.loaded = "ask_type"
  /\ last.msg = <<"h","i">>
  /\ convos[Alice].state = "ask_type"
  /\ last.sends # <<>>

====
